---- MODULE Spec2Model ----
(***************************************************************************)
(* Public-Transport-System: the vehicle clients' connection manager        *)
(* (src/vehicles/base_vehicle.py), the dispatch server's registry          *)
(* (src/server/server.py) and the route vehicles' movement loop and        *)
(* command handling (src/vehicles/train.py, src/vehicles/bus.py, which     *)
(* holds ShuttleClient, and the flat src/bus.py BusClient).                *)
(*                                                                         *)
(* The specifications share this module, one per subsystem; each leaves    *)
(* the variables of the others untouched:                                  *)
(*   SpecConn   - Vehicle.start / connect_to_server / listen_for_commands  *)
(*                / simulate_movement / close, as two threads              *)
(*   SpecServer - TransportServer.handle_tcp_connections / handle_client   *)
(*                / send_command                                           *)
(*   SpecRoute  - simulate_movement with the concrete vehicles' steps and  *)
(*                handle_command / execute (FairRoute: with fairness)      *)
(*   SpecCmd    - handle_command / execute alone, over routes of any length*)
(*   SpecUber   - UberClient.simulate_movement and handle_command, with    *)
(*                the server's process_tcp_message (SpecTrip, FairTrip:    *)
(*                the trip alone)                                          *)
(* A blocking call (connect, recv, send, sleep) ends an atomic step; the   *)
(* statements of one handler between two blocking calls are one step.      *)
(***************************************************************************)
EXTENDS Integers, Sequences, FiniteSets, TLC

VARIABLES
  \* ---- Vehicle (src/vehicles/base_vehicle.py) ----
  running,                   \* Vehicle.running
  server_shutdown_detected,  \* Vehicle.server_shutdown_detected
  tcp_socket,                \* Vehicle.tcp_socket: "None", or the state of the socket object it names
  udp_socket,                \* Vehicle.udp_socket: "open" | "closed"
  mpc,                       \* position of the main thread in start()
  lpc,                       \* position of the command-listener thread
  cpc,                       \* position inside connect_to_server ("idle" when not called)
  caller,                    \* who called connect_to_server: "main" | "disc" | "reco"
  retry_count,               \* connect_to_server's local retry_count
  attempts,                  \* connection attempts made by the current call
  waits,                     \* the time.sleep durations of the current call, in order
  reconnectFailed,           \* a reconnection by the listener has returned False
  shutdownLogged,            \* number of "Client shutting down" log lines
  firstMsg,                  \* the first message written to the socket tcp_socket names ("None": nothing yet)
  lastSend,                  \* how the last send_status_update / send_command_ack call ended
  \* ---- TransportServer (src/server/server.py) ----
  vehicle_registry,          \* TransportServer.vehicle_registry: a dict vehicle_id -> connection
  vehicle_types,             \* TransportServer.vehicle_types: a dict vehicle_id -> type
  srv_running,               \* TransportServer.running
  tcp_server,                \* the listening socket: "listening" | "closed"
  hpc,                       \* per connection: position of its handle_client thread
  hid,                       \* per connection: handle_client's local vehicle_id ("None" before registration)
  client_socket,             \* per connection: the server's end, "open" | "closed"
  evlog,                     \* per connection: the registry events its handler has notified, in order
  delivered,                 \* per connection: the number of Command messages written to it
  cmdCount,                  \* number of send_command calls made
  lastCmd,                   \* the last send_command call: id, command, logged status, return value, I/O under the lock
  \* ---- route vehicles (src/vehicles/train.py, src/vehicles/bus.py, src/bus.py) ----
  kind,                      \* the concrete class: "Train" | "Shuttle" (vehicles/bus.py) | "Bus" (src/bus.py) | "Uber"
  route,                     \* _route / route
  origRoute,                 \* the route the constructor was given
  current_stop_index,        \* _current_stop_index / current_stop_index
  next_stop,                 \* _next_stop / next_stop
  status,                    \* Vehicle.status, the status the messages carry
  _status,                   \* RouteVehicle._status ("None" for the flat BusClient)
  is_delayed,                \* attribute is_delayed, read by _handle_delay and by the flat BusClient
  delay_until,               \* attribute delay_until, read by _handle_delay and by the flat BusClient
  _is_delayed,               \* RouteVehicle._is_delayed
  _delay_until,              \* RouteVehicle._delay_until
  is_shutdown,               \* TrainClient.is_shutdown
  is_active,                 \* ShuttleClient.is_active
  afterStart,                \* the wall clock has reached ShuttleClient.start_time ("08:00")
  clock,                     \* datetime.datetime.now(), in minutes of the day
  next_departure_time,       \* ShuttleClient.next_departure_time, in minutes of the day
  now,                       \* time.time(), in seconds since construction
  rpc,                       \* position of the movement thread in simulate_movement
  wake,                      \* end of the time.sleep the movement thread is in
  gstart,                    \* _progress_generator's local start
  progress,                  \* the leg's progress: the generator's last pct / progress_to_next_stop
  beaconsLeft,               \* flat BusClient: iterations left of "for _ in range(3)"
  ops,                       \* what the movement thread's last step did, in order (each step moves rpc)
  cmdsHandled,               \* number of commands handle_command has handled
  lastCommand,               \* the last command handled: name, duration, response
  \* ---- UberClient (src/vehicles/uber.py) and the server's end of its connection ----
  eta,                       \* UberClient.eta
  in_network_dropout,        \* UberClient.in_network_dropout
  tcpAge,                    \* 5-second sleeps since last_tcp_update was set (6 when none was)
  completions,               \* number of times the code after the movement loop completed the trip
  outbox,                    \* the command replies the Uber has written that the server has not read
  failures,                  \* the COMMAND_FAILURE events the server has logged, in order
  lastBeacon,                \* the last LocationUpdate the Uber has sent
  \* ---- Subject (src/common/patterns.py) and the server's UDP thread ----
  _observers,                \* Subject._observers
  notified,                  \* the observers the last notify_observers called update on, in order
  upc,                       \* position of the handle_udp_messages thread
  udpLast                    \* what the UDP thread did with the last datagram it read

connRest == <<server_shutdown_detected, tcp_socket, udp_socket, mpc, lpc, cpc, caller,
              retry_count, attempts, waits, reconnectFailed, shutdownLogged, firstMsg, lastSend>>

subjVars == <<_observers, notified>>

udpVars == <<upc, udpLast>>

srvVars == <<vehicle_registry, vehicle_types, srv_running, tcp_server, hpc, hid,
             client_socket, evlog, delivered, cmdCount, lastCmd, subjVars, udpVars>>

routeVars == <<kind, route, origRoute, current_stop_index, next_stop, status, _status,
               is_delayed, delay_until, _is_delayed, _delay_until, is_shutdown, is_active,
               afterStart, clock,
                 next_departure_time, now, rpc, wake, gstart, progress, beaconsLeft, ops,
               cmdsHandled, lastCommand>>

uberVars == <<eta, in_network_dropout, tcpAge, completions, outbox, failures, lastBeacon>>

vars == <<running, connRest, srvVars, routeVars, uberVars>>

(***************************************************************************)
(* Vehicle.connect_to_server                                               *)
(***************************************************************************)
max_retries == 5

\* bound on the number of close() calls on one vehicle
MaxCloses == 2

\* wait_time = 2 ** retry_count, linear instead of exponential
WaitTime_Linear(r) == 2 * r

WaitTime(r) == 2 ^ r

\* a call of connect_to_server by `who`: retry_count = 0
CallConnect(who) ==
  /\ cpc' = "check"
  /\ caller' = who
  /\ retry_count' = 0
  /\ attempts' = 0
  /\ waits' = <<>>

\* `while retry_count < max_retries and self.running`
ConnCheck ==
  /\ cpc = "check"
  /\ cpc' = IF retry_count < max_retries /\ running THEN "attempt" ELSE "give_up"
  /\ UNCHANGED <<running, server_shutdown_detected, tcp_socket, udp_socket, mpc, lpc, caller,
                 retry_count, attempts, waits, reconnectFailed, shutdownLogged, firstMsg, lastSend>>

\* the except branch: retry_count += 1; wait_time = 2 ** retry_count; (then time.sleep)
ConnFailed ==
  /\ retry_count' = retry_count + 1
  /\ waits' = Append(waits, WaitTime(retry_count + 1))
  /\ cpc' = "sleeping"

\* the first message on the socket after a write of msg succeeds
FirstWritten(msg) == IF firstMsg = "None" THEN msg ELSE firstMsg

\* self.tcp_socket = socket.socket(...); self.tcp_socket.connect(...)
ConnAttempt ==
  /\ cpc = "attempt"
  /\ attempts' = attempts + 1
  /\ \E ok \in BOOLEAN :
       IF ok
         THEN /\ tcp_socket' = "connected"
              /\ cpc' = "register"
              /\ UNCHANGED <<retry_count, waits>>
         ELSE /\ tcp_socket' = "created"
              /\ ConnFailed
  /\ firstMsg' = "None"
  /\ UNCHANGED <<running, server_shutdown_detected, udp_socket, mpc, lpc, caller,
                 reconnectFailed, shutdownLogged, lastSend>>

\* self.tcp_socket.send(registration); server_shutdown_detected = False; return True
ConnRegister ==
  /\ cpc = "register"
  /\ \E ok \in BOOLEAN :
       IF ok /\ tcp_socket = "connected"
         THEN /\ server_shutdown_detected' = FALSE
              /\ firstMsg' = FirstWritten("REGISTRATION")
              /\ cpc' = "ret_true"
              /\ UNCHANGED <<retry_count, waits>>
         ELSE /\ ConnFailed
              /\ UNCHANGED <<server_shutdown_detected, firstMsg>>
  /\ UNCHANGED <<running, tcp_socket, udp_socket, mpc, lpc, caller, attempts,
                 reconnectFailed, shutdownLogged, lastSend>>

\* time.sleep(wait_time) is over
ConnSleep ==
  /\ cpc = "sleeping"
  /\ cpc' = "check"
  /\ UNCHANGED <<running, server_shutdown_detected, tcp_socket, udp_socket, mpc, lpc, caller,
                 retry_count, attempts, waits, reconnectFailed, shutdownLogged, firstMsg, lastSend>>

\* after the loop, without `self.running = False`
ConnGiveUp_KeepsRunning ==
  /\ cpc = "give_up"
  /\ cpc' = "ret_false"
  /\ UNCHANGED <<running, server_shutdown_detected, tcp_socket, udp_socket, mpc, lpc, caller,
                 retry_count, attempts, waits, reconnectFailed, shutdownLogged, firstMsg, lastSend>>

\* after the loop: log; self.running = False; return False
ConnGiveUp ==
  /\ cpc = "give_up"
  /\ running' = FALSE
  /\ cpc' = "ret_false"
  /\ UNCHANGED <<server_shutdown_detected, tcp_socket, udp_socket, mpc, lpc, caller,
                 retry_count, attempts, waits, reconnectFailed, shutdownLogged, firstMsg, lastSend>>

ConnReturned == cpc \in {"ret_true", "ret_false"}

(***************************************************************************)
(* Vehicle.start, simulate_movement, close: the main thread                *)
(***************************************************************************)
\* start(): `if not self.connect_to_server(): return`
StartConnect ==
  /\ mpc = "start"
  /\ mpc' = "connecting"
  /\ CallConnect("main")
  /\ UNCHANGED <<running, server_shutdown_detected, tcp_socket, udp_socket, lpc,
                 reconnectFailed, shutdownLogged, firstMsg, lastSend>>

\* connect_to_server returned to start(): spawn the listener and simulate, or return
StartReturn ==
  /\ mpc = "connecting"
  /\ caller = "main"
  /\ ConnReturned
  /\ IF cpc = "ret_true"
       THEN mpc' = "sim_check" /\ lpc' = "loop"
       ELSE mpc' = "returned" /\ lpc' = lpc
  /\ cpc' = "idle"
  /\ UNCHANGED <<running, server_shutdown_detected, tcp_socket, udp_socket, caller,
                 retry_count, attempts, waits, reconnectFailed, shutdownLogged, firstMsg, lastSend>>

\* Vehicle._check_connection
CheckConnection == ~server_shutdown_detected /\ tcp_socket # "None"

\* `while self.running and self._check_connection()`
SimCheck ==
  /\ mpc = "sim_check"
  /\ mpc' = IF running /\ CheckConnection THEN "step" ELSE "closing"
  /\ UNCHANGED <<running, server_shutdown_detected, tcp_socket, udp_socket, lpc, cpc, caller,
                 retry_count, attempts, waits, reconnectFailed, shutdownLogged, firstMsg, lastSend>>

\* how a send over tcp_socket ends: `if self.tcp_socket:` skips, a socket that is not
\* connected raises, a connected one may raise
SendOutcome(ok) ==
  IF tcp_socket = "None" THEN "skipped"
  ELSE IF ok /\ tcp_socket = "connected" THEN "sent"
  ELSE "failed"

\* a send path that swallows the exception and flags nothing
SendFlag_Ignore(outcome) == server_shutdown_detected

\* the except branch of the send paths: self.server_shutdown_detected = True
SendFlag(outcome) == IF outcome = "failed" THEN TRUE ELSE server_shutdown_detected

\* send_status_update / send_command_ack / send_command_rejected: `if self.tcp_socket:`
\* try send, except: server_shutdown_detected = True
TcpSend(ok, msg) ==
  /\ server_shutdown_detected' = SendFlag(SendOutcome(ok))
  /\ lastSend' = SendOutcome(ok)
  /\ firstMsg' = IF SendOutcome(ok) = "sent" THEN FirstWritten(msg) ELSE firstMsg

\* one iteration: _handle_delay, _pre_step, _movement_step (its status update), _post_step
SimStep ==
  /\ mpc = "step"
  /\ \E ok \in BOOLEAN : TcpSend(ok, "STATUS_UPDATE")
  /\ mpc' = "sim_check"
  /\ UNCHANGED <<running, tcp_socket, udp_socket, lpc, cpc, caller,
                 retry_count, attempts, waits, reconnectFailed, shutdownLogged>>

\* start(): KeyboardInterrupt inside simulate_movement, then finally
Interrupt ==
  /\ mpc \in {"sim_check", "step"}
  /\ mpc' = "closing"
  /\ UNCHANGED <<running, server_shutdown_detected, tcp_socket, udp_socket, lpc, cpc, caller,
                 retry_count, attempts, waits, reconnectFailed, shutdownLogged, firstMsg, lastSend>>

\* close() is called on a vehicle whose start() has already closed it
CloseAgain ==
  /\ mpc = "done"
  /\ shutdownLogged < MaxCloses
  /\ mpc' = "closing"
  /\ UNCHANGED <<running, server_shutdown_detected, tcp_socket, udp_socket, lpc, cpc, caller,
                 retry_count, attempts, waits, reconnectFailed, shutdownLogged, firstMsg, lastSend>>

\* close(): self.running = False
CloseBegin ==
  /\ mpc = "closing"
  /\ running' = FALSE
  /\ mpc' = "closing_sockets"
  /\ UNCHANGED <<server_shutdown_detected, tcp_socket, udp_socket, lpc, cpc, caller,
                 retry_count, attempts, waits, reconnectFailed, shutdownLogged, firstMsg, lastSend>>

\* close(): close the TCP and the UDP socket, log "Client shutting down"
CloseSockets ==
  /\ mpc = "closing_sockets"
  /\ tcp_socket' = IF tcp_socket = "None" THEN "None" ELSE "closed"
  /\ udp_socket' = "closed"
  /\ shutdownLogged' = shutdownLogged + 1
  /\ mpc' = "done"
  /\ UNCHANGED <<running, server_shutdown_detected, lpc, cpc, caller,
                 retry_count, attempts, waits, reconnectFailed, firstMsg, lastSend>>

(***************************************************************************)
(* Vehicle.listen_for_commands: the command-listener thread                *)
(***************************************************************************)
\* `while self.running`
ListenCheck ==
  /\ lpc = "loop"
  /\ lpc' = IF running THEN "recv" ELSE "exit"
  /\ UNCHANGED <<running, server_shutdown_detected, tcp_socket, udp_socket, mpc, cpc, caller,
                 retry_count, attempts, waits, reconnectFailed, shutdownLogged, firstMsg, lastSend>>

\* what recv can return on the socket as it is
RecvOutcomes ==
  IF tcp_socket = "connected" THEN {"command", "other", "eof", "error"} ELSE {"error"}

\* `if not self.tcp_socket: continue`, else recv and dispatch
ListenRecv ==
  /\ lpc = "recv"
  /\ IF tcp_socket = "None"
       THEN /\ lpc' = "loop"
            /\ UNCHANGED <<server_shutdown_detected, tcp_socket, cpc, caller,
                           retry_count, attempts, waits, firstMsg, lastSend>>
       ELSE \E got \in RecvOutcomes :
              CASE got = "command" ->
                     \* handle_command: send_command_ack
                     /\ \E ok \in BOOLEAN : TcpSend(ok, "COMMAND_ACK")
                     /\ lpc' = "loop"
                     /\ UNCHANGED <<tcp_socket, cpc, caller, retry_count, attempts, waits>>
                [] got = "other" ->
                     /\ lpc' = "loop"
                     /\ UNCHANGED <<server_shutdown_detected, tcp_socket, cpc, caller,
                                    retry_count, attempts, waits, firstMsg, lastSend>>
                [] got = "eof" ->
                     \* handle_server_disconnect
                     /\ server_shutdown_detected' = TRUE
                     /\ tcp_socket' = "closed"
                     /\ lpc' = "reconnecting"
                     /\ CallConnect("disc")
                     /\ UNCHANGED <<firstMsg, lastSend>>
                [] got = "error" ->
                     \* handle_reconnect
                     /\ server_shutdown_detected' = TRUE
                     /\ lpc' = "reconnecting"
                     /\ CallConnect("reco")
                     /\ UNCHANGED <<tcp_socket, firstMsg, lastSend>>
  /\ UNCHANGED <<running, udp_socket, mpc, reconnectFailed, shutdownLogged>>

\* handle_server_disconnect: `if not self.connect_to_server(): self.running = False`
\* handle_reconnect: `if not self.connect_to_server() and self.running: time.sleep(5)`
ListenReturn ==
  /\ lpc = "reconnecting"
  /\ caller \in {"disc", "reco"}
  /\ ConnReturned
  /\ running' = IF cpc = "ret_false" /\ caller = "disc" THEN FALSE ELSE running
  /\ reconnectFailed' = (reconnectFailed \/ cpc = "ret_false")
  /\ lpc' = "loop"
  /\ cpc' = "idle"
  /\ UNCHANGED <<server_shutdown_detected, tcp_socket, udp_socket, mpc, caller,
                 retry_count, attempts, waits, shutdownLogged, firstMsg, lastSend>>

(***************************************************************************)
(* SpecConn                                                                *)
(***************************************************************************)
ConnInit ==
  /\ running = TRUE
  /\ server_shutdown_detected = FALSE
  /\ tcp_socket = "None"
  /\ udp_socket = "open"
  /\ mpc = "start"
  /\ lpc = "idle"
  /\ cpc = "idle"
  /\ caller = "main"
  /\ retry_count = 0
  /\ attempts = 0
  /\ waits = <<>>
  /\ reconnectFailed = FALSE
  /\ shutdownLogged = 0
  /\ firstMsg = "None"
  /\ lastSend = "none"

connVars == <<running, connRest>>

ConnectSteps ==
  /\ ConnCheck \/ ConnAttempt \/ ConnRegister \/ ConnSleep \/ ConnGiveUp
  /\ UNCHANGED <<srvVars, routeVars, uberVars>>

MainLocal ==
  /\ StartConnect \/ StartReturn \/ SimCheck \/ SimStep \/ Interrupt \/ CloseBegin \/ CloseSockets
  /\ UNCHANGED <<srvVars, routeVars, uberVars>>

ListenLocal ==
  /\ ListenCheck \/ ListenReturn
  /\ UNCHANGED <<srvVars, routeVars, uberVars>>

ListenBlocking == ListenRecv /\ UNCHANGED <<srvVars, routeVars, uberVars>>

ConnNext == ConnectSteps \/ MainLocal \/ ListenLocal \/ ListenBlocking

\* the owner of the vehicle calls close() again
CloseCalls == CloseAgain /\ UNCHANGED <<srvVars, routeVars, uberVars>>

CloseNext == ConnNext \/ CloseCalls

(***************************************************************************)
(* TransportServer: accept loop, one handle_client thread per connection,  *)
(* send_command from the admin loop (src/server/server.py).  The telemetry *)
(* sink (sqlite) and the logger are taken not to fail.                     *)
(***************************************************************************)
MaxConns == 2
MaxCmds == 2

Conns == 1..MaxConns
VehicleIds == {"B101", "T22"}
\* the vehicle_type a client sends in its Registration
VehicleTypeOf == [id \in VehicleIds |-> IF id = "B101" THEN "Bus" ELSE "Train"]
Commands == {"DELAY", "SHUTDOWN"}

\* dict operations on vehicle_registry / vehicle_types
DictSet(d, k, v) == [x \in (DOMAIN d) \cup {k} |-> IF x = k THEN v ELSE d[x]]

\* a delete that leaves the entry in place
DictDel_Keep(d, k) == d

DictDel(d, k) == [x \in (DOMAIN d) \ {k} |-> d[x]]

EmptyDict == [x \in {} |-> x]

NoCmd == [id |-> "None", cmd |-> "None", status |-> "None", ret |-> FALSE, locked_io |-> <<>>]

SrvInit ==
  /\ vehicle_registry = EmptyDict
  /\ vehicle_types = EmptyDict
  /\ srv_running = TRUE
  /\ tcp_server = "listening"
  /\ hpc = [c \in Conns |-> "unaccepted"]
  /\ hid = [c \in Conns |-> "None"]
  /\ client_socket = [c \in Conns |-> "open"]
  /\ evlog = [c \in Conns |-> <<>>]
  /\ delivered = [c \in Conns |-> 0]
  /\ cmdCount = 0
  /\ lastCmd = NoCmd
  /\ _observers = <<"log_observer">>
  /\ notified = <<>>
  /\ upc = "check"
  /\ udpLast = "none"

\* handle_tcp_connections: accept() returns the next connection and its handler thread starts
Accept(c) ==
  /\ srv_running
  /\ tcp_server = "listening"
  /\ hpc[c] = "unaccepted"
  /\ \A d \in Conns : d < c => hpc[d] # "unaccepted"
  /\ hpc' = [hpc EXCEPT ![c] = "first_recv"]
  /\ UNCHANGED <<vehicle_registry, vehicle_types, srv_running, tcp_server, hid,
                 client_socket, evlog, delivered, cmdCount, lastCmd>>

\* handle_client: the first recv; a Registration is inserted under the lock
FirstRecvGot(c, got) ==
  /\ hpc[c] = "first_recv"
  /\ IF got \in VehicleIds
       THEN /\ vehicle_registry' = DictSet(vehicle_registry, got, c)
            /\ vehicle_types' = DictSet(vehicle_types, got, VehicleTypeOf[got])
            /\ hid' = [hid EXCEPT ![c] = got]
            /\ hpc' = [hpc EXCEPT ![c] = "inserted"]
       ELSE /\ hpc' = [hpc EXCEPT ![c] = "finally"]
            /\ UNCHANGED <<vehicle_registry, vehicle_types, hid>>
  /\ UNCHANGED <<srv_running, tcp_server, client_socket, evlog, delivered, cmdCount, lastCmd>>

\* what the first recv can return: a Registration of some vehicle, another message, bytes
\* that json.loads rejects, nothing, or an exception
FirstRecv(c) ==
  \E got \in VehicleIds \cup {"other", "undecodable", "eof", "error"} : FirstRecvGot(c, got)

\* handle_client: log, notify_observers("VEHICLE_CONNECTED"), log_event
NotifyConnected(c) ==
  /\ hpc[c] = "inserted"
  /\ evlog' = [evlog EXCEPT ![c] = Append(@, "VEHICLE_CONNECTED")]
  /\ hpc' = [hpc EXCEPT ![c] = "serving"]
  /\ UNCHANGED <<vehicle_registry, vehicle_types, srv_running, tcp_server, hid,
                 client_socket, delivered, cmdCount, lastCmd>>

\* handle_client: while self.running
ServeCheck(c) ==
  /\ hpc[c] = "serving"
  /\ hpc' = [hpc EXCEPT ![c] = IF srv_running THEN "recv" ELSE "removing"]
  /\ UNCHANGED <<vehicle_registry, vehicle_types, srv_running, tcp_server, hid,
                 client_socket, evlog, delivered, cmdCount, lastCmd>>

\* handle_client: recv inside the loop; process_tcp_message only logs
ServeRecvGot(c, got) ==
  /\ hpc[c] = "recv"
  /\ hpc' = [hpc EXCEPT ![c] = IF got = "message" THEN "serving" ELSE "removing"]
  /\ UNCHANGED <<vehicle_registry, vehicle_types, srv_running, tcp_server, hid,
                 client_socket, evlog, delivered, cmdCount, lastCmd>>

ServeRecv(c) == \E got \in {"message", "undecodable", "eof", "error"} : ServeRecvGot(c, got)

\* handle_client: under the lock, del vehicle_registry[vehicle_id] when present
Unregister(c) ==
  /\ hpc[c] = "removing"
  /\ vehicle_registry' = DictDel(vehicle_registry, hid[c])
  /\ vehicle_types' = DictDel(vehicle_types, hid[c])
  /\ hpc' = [hpc EXCEPT ![c] = "removed"]
  /\ UNCHANGED <<srv_running, tcp_server, hid, client_socket, evlog, delivered,
                 cmdCount, lastCmd>>

\* handle_client: log, notify_observers("VEHICLE_DISCONNECTED"), log_event
NotifyDisconnected(c) ==
  /\ hpc[c] = "removed"
  /\ evlog' = [evlog EXCEPT ![c] = Append(@, "VEHICLE_DISCONNECTED")]
  /\ hpc' = [hpc EXCEPT ![c] = "finally"]
  /\ UNCHANGED <<vehicle_registry, vehicle_types, srv_running, tcp_server, hid,
                 client_socket, delivered, cmdCount, lastCmd>>

\* handle_client: finally: client_socket.close()
HandlerClose(c) ==
  /\ hpc[c] = "finally"
  /\ client_socket' = [client_socket EXCEPT ![c] = "closed"]
  /\ hpc' = [hpc EXCEPT ![c] = "closed"]
  /\ UNCHANGED <<vehicle_registry, vehicle_types, srv_running, tcp_server, hid,
                 evlog, delivered, cmdCount, lastCmd>>

\* a send that writes to every accepted connection
SendTargets_Broadcast(id) ==
  IF id \in DOMAIN vehicle_registry THEN {c \in Conns : hpc[c] # "unaccepted"} ELSE {}

\* the connection a send_command for id writes to
SendTargets(id) ==
  IF id \in DOMAIN vehicle_registry THEN {vehicle_registry[id]} ELSE {}

\* what send_command does inside "with self.lock" besides reading the registry: the
\* client_socket.send (when the vehicle is found) and log_admin_command's sqlite write
LockedIO(found) == IF found THEN <<"send", "sink">> ELSE <<"sink">>

\* send_command, the whole body under the lock
SendCommand(id, cmd) ==
  /\ srv_running
  /\ cmdCount < MaxCmds
  /\ cmdCount' = cmdCount + 1
  /\ IF id \in DOMAIN vehicle_registry
       THEN \E ok \in BOOLEAN :
              IF ok /\ \A c \in SendTargets(id) : client_socket[c] = "open"
                THEN /\ delivered' = [c \in Conns |->
                                        IF c \in SendTargets(id)
                                          THEN delivered[c] + 1
                                          ELSE delivered[c]]
                     /\ lastCmd' = [id |-> id, cmd |-> cmd, status |-> "SENT", ret |-> TRUE,
                                  locked_io |-> LockedIO(TRUE)]
                ELSE /\ delivered' = delivered
                     /\ lastCmd' = [id |-> id, cmd |-> cmd, status |-> "FAILED", ret |-> FALSE,
                                  locked_io |-> LockedIO(TRUE)]
       ELSE /\ delivered' = delivered
            /\ lastCmd' = [id |-> id, cmd |-> cmd, status |-> "NOT_FOUND", ret |-> FALSE,
                         locked_io |-> LockedIO(FALSE)]
  /\ UNCHANGED <<vehicle_registry, vehicle_types, srv_running, tcp_server, hpc, hid,
                 client_socket, evlog>>

\* handle_admin_commands: EXIT
AdminExit ==
  /\ srv_running
  /\ srv_running' = FALSE
  /\ UNCHANGED <<vehicle_registry, vehicle_types, tcp_server, hpc, hid, client_socket,
                 evlog, delivered, cmdCount, lastCmd>>

\* start: KeyboardInterrupt in the main loop
ServerInterrupt ==
  /\ srv_running
  /\ srv_running' = FALSE
  /\ tcp_server' = "closed"
  /\ UNCHANGED <<vehicle_registry, vehicle_types, hpc, hid, client_socket, evlog,
                 delivered, cmdCount, lastCmd>>

HandlerStep(c) ==
  \/ FirstRecv(c) \/ NotifyConnected(c) \/ ServeCheck(c) \/ ServeRecv(c)
  \/ Unregister(c) \/ NotifyDisconnected(c) \/ HandlerClose(c)

\* handle_udp_messages: while self.running
UdpCheck ==
  /\ upc = "check"
  /\ upc' = IF srv_running THEN "recv" ELSE "exit"
  /\ udpLast' = udpLast

Datagrams == {"beacon", "other", "undecodable", "error"}

\* a LOCATION_UPDATE is logged and notified; another message is read and ignored; bytes that
\* json.loads rejects and a failed recvfrom end in the except branch
UdpOutcome(d) ==
  IF d = "beacon" THEN "logged" ELSE IF d = "other" THEN "ignored" ELSE "dropped"

\* a UDP thread that ends on a datagram it cannot decode
UdpAfter_Stop(d) == IF d = "undecodable" THEN "exit" ELSE "check"

\* where the UDP thread goes after a datagram: back to the loop test
UdpAfter(d) == "check"

\* handle_udp_messages: one pass of the try block
UdpRecv ==
  /\ upc = "recv"
  /\ \E d \in Datagrams :
       /\ udpLast' = UdpOutcome(d)
       /\ upc' = UdpAfter(d)

UdpStep ==
  /\ UdpCheck \/ UdpRecv
  /\ UNCHANGED <<vehicle_registry, vehicle_types, srv_running, tcp_server, hpc, hid,
                 client_socket, evlog, delivered, cmdCount, lastCmd, subjVars>>

\* the server's threads without the admin's send_command
ProtoNext ==
  /\ UNCHANGED <<connVars, routeVars, uberVars>>
  /\ \/ /\ UNCHANGED <<subjVars, udpVars>>
        /\ \/ \E c \in Conns : Accept(c)
           \/ \E c \in Conns : HandlerStep(c)
           \/ AdminExit
           \/ ServerInterrupt
     \/ UdpStep

Observers == {"log_observer", "o2", "o3"}

\* a register_observer that appends without looking
WithObserver_NoCheck(l, o) == Append(l, o)

\* register_observer: if observer not in self._observers: append
WithObserver(l, o) == IF \E i \in DOMAIN l : l[i] = o THEN l ELSE Append(l, o)

RECURSIVE WithoutObserver(_, _)
\* remove_observer: list.remove drops the first occurrence, when there is one
WithoutObserver(l, o) ==
  IF l = <<>> THEN <<>>
  ELSE IF Head(l) = o THEN Tail(l)
  ELSE <<Head(l)>> \o WithoutObserver(Tail(l), o)

register_observer(o) ==
  /\ _observers' = WithObserver(_observers, o)
  /\ notified' = notified

remove_observer(o) ==
  /\ _observers' = WithoutObserver(_observers, o)
  /\ notified' = notified

\* notify_observers: for observer in self._observers: observer.update(...)
notify_observers ==
  /\ notified' = _observers
  /\ _observers' = _observers

ObsNext ==
  /\ UNCHANGED <<connVars, routeVars, uberVars, udpVars>>
  /\ UNCHANGED <<vehicle_registry, vehicle_types, srv_running, tcp_server, hpc, hid,
                 client_socket, evlog, delivered, cmdCount, lastCmd>>
  /\ \/ \E o \in Observers : register_observer(o)
     \/ \E o \in Observers : remove_observer(o)
     \/ notify_observers

SrvNext ==
  /\ UNCHANGED <<connVars, routeVars, uberVars, subjVars, udpVars>>
  /\ \/ \E c \in Conns : Accept(c)
     \/ \E c \in Conns : HandlerStep(c)
     \/ \E id \in VehicleIds, cmd \in Commands : SendCommand(id, cmd)
     \/ AdminExit
     \/ ServerInterrupt

(***************************************************************************)
(* Route vehicles: the movement thread (simulate_movement and the concrete *)
(* classes' steps) and the command listener's handle_command / execute.    *)
(* TrainClient and ShuttleClient are the classes of src/vehicles; the      *)
(* package has no BusClient, so the Bus is the flat src/bus.py one.  The   *)
(* control connection is up and its sends succeed.  Time advances while    *)
(* the movement thread sleeps; a sleeper wakes when its time is up.        *)
(***************************************************************************)
MaxTime == 40
MaxRouteCmds == 2

BUS_ROUTE == <<"Port Authority Terminal", "Times Square", "Flatiron", "Union Square", "Wall Street">>
TRAIN_ROUTE == <<"Queens Plaza", "Herald Square", "Delancey St", "Middle Village">>
SHUTTLE_ROUTE == <<"Penn Station", "JFK Airport">>

Kinds == {"Train", "Shuttle", "Bus"}
RouteCommands == {"DELAY", "REROUTE", "SHUTDOWN", "START_ROUTE"}
\* the duration parameter of a DELAY command, seconds
Durations == {2, 7}
\* random.uniform(2, 8) of the flat BusClient, its two extremes
ProgressIncrements == {2, 8}

RouteOf(k) == IF k = "Train" THEN TRAIN_ROUTE ELSE IF k = "Bus" THEN BUS_ROUTE ELSE SHUTTLE_ROUTE

NoCommand == [cmd |-> "None", duration |-> 0, response |-> "None"]

\* RouteVehicle.__init__ and the concrete constructors, for a route r
RouteInitWith(k, r) ==
  /\ kind = k
  /\ route = r
  /\ origRoute = r
  /\ current_stop_index = 0
  /\ next_stop = IF Len(r) > 1 THEN r[2] ELSE "None"
  /\ status = "On Time"
  /\ _status = IF k = "Train" THEN "On Time" ELSE IF k = "Shuttle" THEN "Standby" ELSE "None"
  /\ is_delayed = FALSE
  /\ delay_until = 0
  /\ _is_delayed = FALSE
  /\ _delay_until = 0
  /\ is_shutdown = FALSE
  /\ is_active = FALSE
  /\ now = 0
  /\ rpc = "loop"
  /\ wake = 0
  /\ gstart = 0
  /\ progress = 0
  /\ beaconsLeft = 0
  /\ ops = <<>>
  /\ cmdsHandled = 0
  /\ lastCommand = NoCommand

RouteInitFor(k) == RouteInitWith(k, RouteOf(k))

NoBeacon == [status |-> "None", has_eta |-> FALSE, eta |-> 0]

\* the Uber's variables while a route vehicle is studied
UberIdle ==
  /\ eta = 0
  /\ in_network_dropout = FALSE
  /\ tcpAge = 0
  /\ completions = 0
  /\ outbox = <<>>
  /\ failures = <<>>
  /\ lastBeacon = NoBeacon

\* self.start_time = "08:00", in minutes of the day
start_time == 480

\* the wall clock at construction, before start_time or not, and
\* self.next_departure_time = self.start_time
ScheduleInit ==
  /\ afterStart \in BOOLEAN
  /\ clock = IF afterStart THEN start_time ELSE start_time - 1
  /\ next_departure_time = start_time

RouteInit == (\E k \in Kinds : RouteInitFor(k) /\ ScheduleInit) /\ UberIdle

\* the route variables while another subsystem is studied
RouteIdle == RouteInitFor("Train") /\ ScheduleInit /\ afterStart = TRUE /\ UberIdle

\* the connection after start() has connected and started the listener
ConnUp ==
  /\ running = TRUE
  /\ server_shutdown_detected = FALSE
  /\ tcp_socket = "connected"
  /\ udp_socket = "open"
  /\ mpc = "sim_check"
  /\ lpc = "loop"
  /\ cpc = "idle"
  /\ caller = "main"
  /\ retry_count = 0
  /\ attempts = 1
  /\ waits = <<>>
  /\ reconnectFailed = FALSE
  /\ shutdownLogged = 0
  /\ firstMsg = "REGISTRATION"
  /\ lastSend = "none"

\* a deadline that forgets the current time
DelayDeadline_DurationOnly(t, d) == d

\* time.time() + duration
DelayDeadline(t, d) == t + d

\* a "shuffle" that draws every position independently
Shuffles_WithRepeats(seq) == [1..Len(seq) -> {seq[i] : i \in 1..Len(seq)}]

\* all orders random.shuffle can leave a list in
RECURSIVE Shuffles(_)
Shuffles(seq) ==
  IF Len(seq) = 0 THEN {<<>>}
  ELSE UNION {{<<seq[i]>> \o rest :
                 rest \in Shuffles(SubSeq(seq, 1, i - 1) \o SubSeq(seq, i + 1, Len(seq)))} :
              i \in 1..Len(seq)}

\* execute(REROUTE): the routes it can leave
\* a reroute that shuffles every stop
Rerouted_ShuffleAll(r) == Shuffles(r)

Rerouted(r) ==
  IF Len(r) > 3
    THEN {<<r[1]>> \o middle_stops \o <<r[Len(r)]>> :
            middle_stops \in Shuffles(SubSeq(r, 2, Len(r) - 1))}
    ELSE {r}

Handled(cmd, d, resp) ==
  /\ cmdsHandled' = cmdsHandled + 1
  /\ lastCommand' = [cmd |-> cmd, duration |-> d, response |-> resp]

\* a train whose Shutdown stops the client, as the Bus's and the Shuttle's does
TrainHandle_ShutdownStops(cmd, d) ==
  /\ kind = "Train"
  /\ IF cmd = "SHUTDOWN"
       THEN running' = FALSE /\ Handled(cmd, d, "ACK")
       ELSE running' = running /\ Handled(cmd, d, "REJECTED")
  /\ UNCHANGED <<route, _status, is_shutdown, _is_delayed, _delay_until, status, is_delayed,
                 delay_until, is_active>>

\* TrainClient.handle_command with the execute it calls
TrainHandle(cmd, d) ==
  /\ kind = "Train"
  /\ CASE cmd = "DELAY" ->
            /\ _is_delayed' = TRUE
            /\ _status' = "Delayed"
            /\ _delay_until' = DelayDeadline(now, d)
            /\ Handled(cmd, d, "ACK")
            /\ UNCHANGED <<route, is_shutdown>>
       [] cmd = "SHUTDOWN" ->
            /\ is_shutdown' = TRUE
            /\ _status' = "Standby"
            /\ Handled(cmd, d, "ACK")
            /\ UNCHANGED <<route, _is_delayed, _delay_until>>
       [] cmd = "REROUTE" ->
            /\ route' \in Rerouted(route)
            /\ Handled(cmd, d, "ACK")
            /\ UNCHANGED <<_status, is_shutdown, _is_delayed, _delay_until>>
       [] cmd = "START_ROUTE" ->
            /\ is_shutdown' = FALSE
            /\ _status' = IF is_shutdown THEN "On Time" ELSE _status
            /\ Handled(cmd, d, "ACK")
            /\ UNCHANGED <<route, _is_delayed, _delay_until>>
       [] OTHER ->
            /\ Handled(cmd, d, "REJECTED")
            /\ UNCHANGED <<route, _status, is_shutdown, _is_delayed, _delay_until>>
  /\ UNCHANGED <<running, status, is_delayed, delay_until, is_active>>

\* a shuttle that takes any time for its start time
ScheduleReached_Always == TRUE

\* ShuttleClient.handle_command: current_time >= self.start_time
ScheduleReached == afterStart

\* ShuttleClient.handle_command with the execute it calls
ShuttleHandle(cmd, d) ==
  /\ kind = "Shuttle"
  /\ CASE cmd = "START_ROUTE" /\ ScheduleReached ->
            /\ is_active' = TRUE
            /\ status' = "Active"
            /\ Handled(cmd, d, "ACK")
            /\ UNCHANGED <<running, _is_delayed, _delay_until>>
       [] cmd = "START_ROUTE" /\ ~ScheduleReached ->
            /\ Handled(cmd, d, "REJECTED")
            /\ UNCHANGED <<running, status, is_active, _is_delayed, _delay_until>>
       [] cmd = "SHUTDOWN" ->
            /\ running' = FALSE
            /\ Handled(cmd, d, "ACK")
            /\ UNCHANGED <<status, is_active, _is_delayed, _delay_until>>
       [] cmd = "DELAY" ->
            /\ _is_delayed' = TRUE
            /\ status' = "Delayed"
            /\ _delay_until' = DelayDeadline(now, d)
            /\ Handled(cmd, d, "ACK")
            /\ UNCHANGED <<running, is_active>>
       [] OTHER ->
            /\ Handled(cmd, d, "REJECTED")
            /\ UNCHANGED <<running, status, is_active, _is_delayed, _delay_until>>
  /\ UNCHANGED <<route, _status, is_delayed, delay_until, is_shutdown>>

\* BusClient.handle_command (src/bus.py) with the execute it calls
BusHandle(cmd, d) ==
  /\ kind = "Bus"
  /\ CASE cmd = "DELAY" ->
            /\ is_delayed' = TRUE
            /\ status' = "Delayed"
            /\ delay_until' = DelayDeadline(now, d)
            /\ Handled(cmd, d, "ACK")
            /\ UNCHANGED <<running, route>>
       [] cmd = "REROUTE" ->
            /\ route' \in Rerouted(route)
            /\ Handled(cmd, d, "ACK")
            /\ UNCHANGED <<running, status, is_delayed, delay_until>>
       [] cmd = "SHUTDOWN" ->
            /\ running' = FALSE
            /\ Handled(cmd, d, "ACK")
            /\ UNCHANGED <<route, status, is_delayed, delay_until>>
       [] OTHER ->
            /\ Handled(cmd, d, "REJECTED")
            /\ UNCHANGED <<running, route, status, is_delayed, delay_until>>
  /\ UNCHANGED <<_status, _is_delayed, _delay_until, is_shutdown, is_active>>

\* listen_for_commands receives a Command and calls handle_command
HandleCommand(cmd, d) ==
  /\ running
  /\ cmdsHandled < MaxRouteCmds
  /\ TrainHandle(cmd, d) \/ ShuttleHandle(cmd, d) \/ BusHandle(cmd, d)
  /\ UNCHANGED <<kind, origRoute, current_stop_index, next_stop, afterStart, clock,
                 next_departure_time, now, rpc, wake,
                 gstart, progress, beaconsLeft, ops>>

\* what the movement thread never writes
MoverFrame ==
  UNCHANGED <<kind, route, origRoute, _status, delay_until, _is_delayed, _delay_until,
              is_shutdown, afterStart, clock,
                 next_departure_time, now, cmdsHandled, lastCommand>>

Did(seq) == ops' = seq

\* _handle_delay / the flat BusClient's check: still inside the delay
DelayWaits == is_delayed /\ now < delay_until

\* _progress_generator: pct after elapsed seconds (travel_time 15 for the train, 30 for the shuttle)
Pct(k, elapsed) ==
  LET travel_time == IF k = "Train" THEN 15 ELSE 30
      raw == (elapsed * 100) \div travel_time
  IN IF raw > 100 THEN 100 ELSE raw

\* simulate_movement of Vehicle, one pass from the loop test to the call of _movement_step:
\* the loop test, _handle_delay, _pre_step (ShuttleClient activates itself on schedule)
LoopTop ==
  /\ rpc = "loop"
  /\ kind \in {"Train", "Shuttle"}
  /\ IF ~running
       THEN /\ rpc' = "done"
            /\ Did(<<"exit">>)
            /\ UNCHANGED <<is_delayed, is_active, status, wake, gstart>>
       ELSE IF DelayWaits
         THEN /\ rpc' = "delay_sleep"
              /\ wake' = now + 1
              /\ Did(<<"delay_wait">>)
              /\ UNCHANGED <<is_delayed, is_active, status, gstart>>
         ELSE /\ is_delayed' = FALSE
              /\ IF kind = "Shuttle" /\ ~is_active /\ afterStart
                   THEN is_active' = TRUE /\ status' = "Active"
                   ELSE UNCHANGED <<is_active, status>>
              /\ gstart' = now
              /\ rpc' = "gen"
              /\ Did(<<"pre_step">>)
              /\ UNCHANGED wake
  /\ MoverFrame
  /\ UNCHANGED <<running, current_stop_index, next_stop, progress, beaconsLeft>>

\* _movement_step of TrainClient / ShuttleClient: the next element of the generator,
\* the running test, send_status_update, log_location_update, then time.sleep(pause)
GenNext ==
  /\ rpc = "gen"
  /\ progress' = Pct(kind, now - gstart)
  /\ IF ~running
       THEN /\ rpc' = "loop"
            /\ Did(<<"post_step">>)
            /\ UNCHANGED wake
       ELSE /\ rpc' = "gen_sleep"
            /\ wake' = now + 5
            /\ Did(<<"status_update">>)
  /\ MoverFrame
  /\ UNCHANGED <<running, current_stop_index, next_stop, status, is_delayed, is_active,
                 gstart, beaconsLeft>>

\* the sleep of _movement_step ends; the generator stops after pct >= 100, then _post_step
GenWake ==
  /\ rpc = "gen_sleep"
  /\ now >= wake
  /\ IF progress >= 100
       THEN rpc' = "loop" /\ Did(<<"post_step">>)
       ELSE rpc' = "gen" /\ Did(<<>>)
  /\ MoverFrame
  /\ UNCHANGED <<running, current_stop_index, next_stop, status, is_delayed, is_active,
                 wake, gstart, progress, beaconsLeft>>

\* the time.sleep(1) of a delayed pass ends: continue
DelayWake ==
  /\ rpc = "delay_sleep"
  /\ now >= wake
  /\ rpc' = "loop"
  /\ Did(<<>>)
  /\ MoverFrame
  /\ UNCHANGED <<running, current_stop_index, next_stop, status, is_delayed, is_active,
                 wake, gstart, progress, beaconsLeft>>

\* BusClient.simulate_movement (src/bus.py): the loop test, the delay check, send_status_update
BusLoopTop ==
  /\ rpc = "loop"
  /\ kind = "Bus"
  /\ IF ~running
       THEN /\ rpc' = "done"
            /\ Did(<<"exit">>)
            /\ UNCHANGED <<is_delayed, wake, beaconsLeft>>
       ELSE IF DelayWaits
         THEN /\ rpc' = "delay_sleep"
              /\ wake' = now + 1
              /\ Did(<<"delay_wait">>)
              /\ UNCHANGED <<is_delayed, beaconsLeft>>
         ELSE /\ is_delayed' = FALSE
              /\ beaconsLeft' = 3
              /\ rpc' = "beacons"
              /\ Did(<<"status_update">>)
              /\ UNCHANGED wake
  /\ MoverFrame
  /\ UNCHANGED <<running, current_stop_index, next_stop, status, is_active, gstart, progress>>

\* BusClient.simulate_movement: one pass of "for _ in range(3)" up to its time.sleep(3)
BusBeacon ==
  /\ rpc = "beacons"
  /\ IF ~running
       THEN /\ rpc' = "loop"
            /\ Did(<<>>)
            /\ UNCHANGED <<current_stop_index, next_stop, status, progress, wake>>
       ELSE /\ \E inc \in ProgressIncrements :
                 IF progress + inc >= 100
                   THEN LET next_stop_index == (current_stop_index + 1) % Len(route)
                        IN /\ progress' = 0
                           /\ current_stop_index' = next_stop_index
                           /\ next_stop' = route[((next_stop_index + 1) % Len(route)) + 1]
                           /\ IF route[next_stop_index + 1] = "Union Square"
                                THEN status' \in {status, "Delayed"}
                                ELSE status' = status
                           /\ Did(<<"arrival", "beacon">>)
                   ELSE /\ progress' = progress + inc
                        /\ Did(<<"beacon">>)
                        /\ UNCHANGED <<current_stop_index, next_stop, status>>
            /\ rpc' = "beacon_sleep"
            /\ wake' = now + 3
  /\ MoverFrame
  /\ UNCHANGED <<running, is_delayed, is_active, gstart, beaconsLeft>>

\* the time.sleep(3) after a beacon ends
BeaconWake ==
  /\ rpc = "beacon_sleep"
  /\ now >= wake
  /\ beaconsLeft' = beaconsLeft - 1
  /\ rpc' = IF beaconsLeft = 1 THEN "loop" ELSE "beacons"
  /\ Did(<<>>)
  /\ MoverFrame
  /\ UNCHANGED <<running, current_stop_index, next_stop, status, is_delayed, is_active,
                 wake, gstart, progress>>

\* start(): simulate_movement has returned, finally close()
\* a close() that leaves the socket as it is
CloseSocket_Leave(sock) == sock

\* close(): "if sock: sock.close()"
CloseSocket(sock) == IF sock = "None" THEN "None" ELSE "closed"

RouteClose ==
  /\ rpc = "done"
  /\ running' = FALSE
  /\ tcp_socket' = CloseSocket(tcp_socket)
  /\ udp_socket' = CloseSocket(udp_socket)
  /\ rpc' = "closed"
  /\ Did(<<"close">>)
  /\ MoverFrame
  /\ UNCHANGED <<current_stop_index, next_stop, status, is_delayed, is_active, wake, gstart,
                 progress, beaconsLeft>>

\* a second passes while the movement thread sleeps; the horizon MaxTime stops the clock
\* of a running vehicle only, so that the last sleep of a stopped one still ends
Tick ==
  /\ rpc \in {"delay_sleep", "gen_sleep", "beacon_sleep"}
  /\ now < wake
  /\ now < MaxTime \/ ~running
  /\ now' = now + 1
  /\ UNCHANGED <<running, kind, route, origRoute, current_stop_index, next_stop, status,
                 _status, is_delayed, delay_until, _is_delayed, _delay_until, is_shutdown,
                 is_active, afterStart, clock,
                 next_departure_time, rpc, wake, gstart, progress, beaconsLeft, ops,
                 cmdsHandled, lastCommand>>

\* the wall clock reaches the shuttle's start_time
DayStart ==
  /\ kind = "Shuttle"
  /\ ~afterStart
  /\ afterStart' = TRUE
  /\ clock' = start_time
  /\ UNCHANGED next_departure_time
  /\ UNCHANGED <<running, kind, route, origRoute, current_stop_index, next_stop, status,
                 _status, is_delayed, delay_until, _is_delayed, _delay_until, is_shutdown,
                 is_active, now, rpc, wake, gstart, progress, beaconsLeft, ops,
                 cmdsHandled, lastCommand>>

\* the connection variables other than running and the two sockets
connOther == <<server_shutdown_detected, mpc, lpc, cpc, caller, retry_count, attempts, waits,
               reconnectFailed, shutdownLogged, firstMsg, lastSend>>

MoverStep ==
  \/ /\ \/ LoopTop \/ GenNext \/ GenWake \/ DelayWake
        \/ BusLoopTop \/ BusBeacon \/ BeaconWake
     /\ UNCHANGED <<tcp_socket, udp_socket>>
  \/ RouteClose

\* the movement thread of a route vehicle
RouteMover == MoverStep /\ UNCHANGED <<connOther, srvVars, uberVars>>

RouteTick == Tick /\ UNCHANGED <<connRest, srvVars, uberVars>>

RouteNext ==
  \/ RouteMover
  \/ RouteTick
  \/ /\ UNCHANGED <<connRest, srvVars, uberVars>>
     /\ \/ \E cmd \in RouteCommands :
             \E d \in (IF cmd = "DELAY" THEN Durations ELSE {0}) : HandleCommand(cmd, d)
        \/ DayStart

(***************************************************************************)
(* UberClient (src/vehicles/uber.py): a point-to-point trip.  The control  *)
(* connection is up and its sends succeed; each write of the vehicle is    *)
(* one read of the server's handler.                                       *)
(***************************************************************************)
\* random.randint(5, 15) of the constructor, its two extremes
InitialEtas == {5, 15}
\* random.randint(2, 5)
UberIncrements == 2..5
\* the outcomes of "random.random() < 0.8" inside the dropout window
DropoutRetries_Always == {TRUE}

DropoutRetries == BOOLEAN

\* the route variables an Uber does not have or never writes
routeRest == <<kind, route, origRoute, current_stop_index, next_stop, _status, is_delayed,
               delay_until, _is_delayed, _delay_until, is_shutdown, is_active, afterStart, clock,
                 next_departure_time,
               now, wake, gstart, beaconsLeft>>

UberInit ==
  /\ kind = "Uber"
  /\ route = <<>>
  /\ origRoute = <<>>
  /\ current_stop_index = 0
  /\ next_stop = "None"
  /\ status = "Active"
  /\ _status = "None"
  /\ is_delayed = FALSE
  /\ delay_until = 0
  /\ _is_delayed = FALSE
  /\ _delay_until = 0
  /\ is_shutdown = FALSE
  /\ is_active = FALSE
  /\ ScheduleInit
  /\ afterStart = TRUE
  /\ now = 0
  /\ rpc = "loop"
  /\ wake = 0
  /\ gstart = 0
  /\ progress = 0
  /\ beaconsLeft = 0
  /\ ops = <<>>
  /\ cmdsHandled = 0
  /\ lastCommand = NoCommand
  /\ eta \in InitialEtas
  /\ in_network_dropout = FALSE
  /\ tcpAge = 6
  /\ completions = 0
  /\ outbox = <<>>
  /\ failures = <<>>
  /\ lastBeacon = NoBeacon

\* UberClient.handle_command: the reason it gives for each command
UberReason(cmd) ==
  CASE cmd = "SHUTDOWN" -> "Cannot shutdown/cancel private ride - encapsulated rules"
    [] cmd = "REROUTE" -> "Cannot reroute private ride - driver autonomy rules"
    [] cmd = "DELAY" -> "Cannot artificially delay private ride"
    [] OTHER -> "Unknown or unsupported command"

\* send_command_rejected over a connected socket
CommandRejected(cmd, reason) == [type |-> "COMMAND_REJECTED", command |-> cmd, reason |-> reason]

\* a handler that acknowledges whatever it is sent
UberCommand_Ack(cmd, d) ==
  /\ kind = "Uber"
  /\ running
  /\ cmdsHandled < MaxRouteCmds
  /\ Handled(cmd, d, "ACK")
  /\ UNCHANGED <<running, routeRest, status, rpc, progress, ops, uberVars>>

\* listen_for_commands receives a Command and calls UberClient.handle_command
UberCommand(cmd, d) ==
  /\ kind = "Uber"
  /\ running
  /\ cmdsHandled < MaxRouteCmds
  /\ outbox' = Append(outbox, CommandRejected(cmd, UberReason(cmd)))
  /\ Handled(cmd, d, "REJECTED")
  /\ UNCHANGED <<running, routeRest, status, rpc, progress, ops>>
  /\ UNCHANGED <<eta, in_network_dropout, tcpAge, completions, failures, lastBeacon>>

\* the failure log keeps every reason
LogEvent_Drop(log, reason) == log

\* TransportServer.log_event(vehicle_id, "COMMAND_FAILURE", reason)
LogEvent(log, reason) == Append(log, reason)

\* handle_client reads one message of the Uber and calls process_tcp_message
ProcessTcpMessage ==
  /\ outbox # <<>>
  /\ failures' = IF Head(outbox).type = "COMMAND_REJECTED"
                   THEN LogEvent(failures, Head(outbox).reason)
                   ELSE failures
  /\ outbox' = Tail(outbox)
  /\ UNCHANGED <<running, routeVars, eta, in_network_dropout, tcpAge, completions, lastBeacon>>

\* the free send_udp_beacon: "if eta: message['eta'] = eta"
UdpBeacon(st, e) == [status |-> st, has_eta |-> (e # 0), eta |-> e]

\* a progress update without the cap
UberProgress_NoCap(p, inc) == p + inc

\* self.progress = min(100, self.progress + progress_increment)
UberProgress(p, inc) == IF p + inc > 100 THEN 100 ELSE p + inc

\* self.eta = max(1, int(15 * (100 - self.progress) / 100))
UberEta(p) == IF (15 * (100 - p)) \div 100 < 1 THEN 1 ELSE (15 * (100 - p)) \div 100

\* self.network_dropout_threshold = 50, the field that names the start of the window
network_dropout_threshold == 50

\* a dropout that never ends
InDropoutWindow_Open(p) == 50 <= p

\* the test "50 <= self.progress < 60"
InDropoutWindow(p) == 50 <= p /\ p < 60

\* one iteration of the loop of simulate_movement, up to its time.sleep
UberIterate ==
  /\ kind = "Uber"
  /\ rpc = "loop"
  /\ running /\ progress < 100
  /\ LET sendTcp == tcpAge >= 6 \/ progress % 20 = 0
         tcpOps == IF sendTcp THEN <<"status_update">> ELSE <<>>
         inWindow == InDropoutWindow(progress)
     IN /\ tcpAge' = IF sendTcp THEN 0 ELSE tcpAge
        /\ \E retry \in (IF inWindow THEN DropoutRetries ELSE {FALSE}) :
             IF retry
               THEN /\ in_network_dropout' = TRUE
                    /\ Did(tcpOps \o <<"retry">>)
                    /\ UNCHANGED <<progress, eta, lastBeacon>>
               ELSE /\ in_network_dropout' = IF inWindow THEN TRUE
                                             ELSE IF progress >= 60 THEN FALSE
                                             ELSE in_network_dropout
                    /\ lastBeacon' = UdpBeacon(status, eta)
                    /\ \E inc \in UberIncrements : progress' = UberProgress(progress, inc)
                    /\ eta' = UberEta(progress')
                    /\ Did(tcpOps \o <<"beacon">>)
  /\ rpc' = "uber_sleep"
  /\ UNCHANGED <<running, routeRest, status, cmdsHandled, lastCommand, completions, outbox,
                 failures>>

\* time.sleep(update_interval) returns
UberWake ==
  /\ kind = "Uber"
  /\ rpc = "uber_sleep"
  /\ rpc' = "loop"
  /\ tcpAge' = IF tcpAge < 6 THEN tcpAge + 1 ELSE 6
  /\ Did(<<>>)
  /\ UNCHANGED <<running, routeRest, status, progress, cmdsHandled, lastCommand, eta,
                 in_network_dropout, completions, outbox, failures, lastBeacon>>

\* the loop test fails; the code after the loop
UberFinish ==
  /\ kind = "Uber"
  /\ rpc = "loop"
  /\ ~(running /\ progress < 100)
  /\ IF progress >= 100
       THEN /\ status' = "On Time"
            /\ lastBeacon' = UdpBeacon("On Time", 0)
            /\ running' = FALSE
            /\ completions' = completions + 1
            /\ Did(<<"status_update", "beacon">>)
       ELSE /\ Did(<<"exit">>)
            /\ UNCHANGED <<status, lastBeacon, running, completions>>
  /\ rpc' = "done"
  /\ UNCHANGED <<routeRest, progress, cmdsHandled, lastCommand, eta, in_network_dropout,
                 tcpAge, outbox, failures>>

\* the movement thread of an Uber
UberMover ==
  /\ UNCHANGED <<connOther, srvVars>>
  /\ \/ UberIterate /\ UNCHANGED <<tcp_socket, udp_socket>>
     \/ UberWake /\ UNCHANGED <<tcp_socket, udp_socket>>
     \/ UberFinish /\ UNCHANGED <<tcp_socket, udp_socket>>
     \/ kind = "Uber" /\ RouteClose /\ UNCHANGED uberVars

\* an iteration that is not a dropout retry
UberAdvance == UberMover /\ progress' > progress

UberNext ==
  \/ UberMover
  \/ /\ UNCHANGED <<connRest, srvVars>>
     /\ \/ \E cmd \in RouteCommands :
             \E d \in (IF cmd = "DELAY" THEN Durations ELSE {0}) : UberCommand(cmd, d)
        \/ ProcessTcpMessage

(***************************************************************************)
(* Command handling alone: every concrete class, constructed over a route  *)
(* of any length the constructor accepts, receives commands.               *)
(***************************************************************************)
\* a command string no class knows
UnknownCommands == {"HONK"}

CommandStrings == RouteCommands \cup UnknownCommands

\* routes a RouteVehicle may be constructed with: the configured one and its prefixes
InputRoutes(k) == {SubSeq(RouteOf(k), 1, n) : n \in 2..Len(RouteOf(k))}

CmdInit ==
  \/ /\ \E k \in Kinds : \E r \in InputRoutes(k) : RouteInitWith(k, r)
     /\ ScheduleInit
     /\ UberIdle
  \/ UberInit

CmdNext ==
  /\ UNCHANGED <<connRest, srvVars>>
  /\ \/ \E cmd \in CommandStrings :
          \E d \in (IF cmd = "DELAY" THEN Durations ELSE {0}) :
             HandleCommand(cmd, d) /\ UNCHANGED uberVars
     \/ \E cmd \in CommandStrings :
          \E d \in (IF cmd = "DELAY" THEN Durations ELSE {0}) : UberCommand(cmd, d)
     \/ DayStart /\ UNCHANGED uberVars
     \/ ProcessTcpMessage

(***************************************************************************)
(* Specifications                                                          *)
(***************************************************************************)
InitConn == ConnInit /\ SrvInit /\ RouteIdle

SpecConn == InitConn /\ [][ConnNext]_vars

\* the threads are scheduled; only a blocked recv may wait for ever
FairConn == SpecConn /\ WF_vars(ConnectSteps) /\ WF_vars(MainLocal) /\ WF_vars(ListenLocal)

SpecClose == InitConn /\ [][CloseNext]_vars

InitServer == ConnInit /\ SrvInit /\ RouteIdle

SpecServer == InitServer /\ [][SrvNext]_vars

\* the handler threads and the UDP thread
SpecProto == InitServer /\ [][ProtoNext]_vars

\* a Subject and its callers
SpecObs == InitServer /\ [][ObsNext]_vars

InitRoute == ConnUp /\ SrvInit /\ RouteInit

SpecRoute == InitRoute /\ [][RouteNext]_vars

\* the movement thread is scheduled and its sleeps end
FairRoute == SpecRoute /\ WF_vars(RouteMover) /\ WF_vars(RouteTick)

\* stopping a vehicle: the classes whose Shutdown clears running, and the commands their
\* movement loops read the effect of
StopCommands == {"DELAY", "SHUTDOWN"}

StopNext ==
  \/ RouteMover
  \/ RouteTick
  \/ /\ UNCHANGED <<connRest, srvVars, uberVars>>
     /\ \/ \E cmd \in StopCommands :
             \E d \in (IF cmd = "DELAY" THEN Durations ELSE {0}) : HandleCommand(cmd, d)
        \/ DayStart

InitStop ==
  /\ ConnUp
  /\ SrvInit
  /\ \E k \in {"Bus", "Shuttle"} : RouteInitFor(k) /\ ScheduleInit
  /\ UberIdle

SpecStop == InitStop /\ [][StopNext]_vars

FairStop == SpecStop /\ WF_vars(RouteMover) /\ WF_vars(RouteTick)

\* handle_command of the Bus and of the Shuttle for SHUTDOWN, statement by statement:
\* execute(SHUTDOWN), where ShuttleClient.execute clears running and BusClient.execute
\* only logs
ShutdownExecute ==
  /\ kind \in {"Bus", "Shuttle"}
  /\ lpc = "loop"
  /\ running
  /\ tcp_socket = "connected"
  /\ running' = IF kind = "Shuttle" THEN FALSE ELSE running
  /\ lpc' = "ack"
  /\ UNCHANGED <<server_shutdown_detected, firstMsg, lastSend, cmdsHandled, lastCommand>>

\* send_command_ack(command_type, "Shutting down")
ShutdownAck ==
  /\ lpc = "ack"
  /\ \E ok \in BOOLEAN : TcpSend(ok, "COMMAND_ACK")
  /\ Handled("SHUTDOWN", 0, "ACK")
  /\ lpc' = "stop"
  /\ UNCHANGED running

\* self.running = False, the last statement of the branch; the listener's loop then ends
ShutdownStop ==
  /\ lpc = "stop"
  /\ running' = FALSE
  /\ lpc' = "exit"
  /\ UNCHANGED <<server_shutdown_detected, firstMsg, lastSend, cmdsHandled, lastCommand>>

ShutdownSteps ==
  /\ ShutdownExecute \/ ShutdownAck \/ ShutdownStop
  /\ UNCHANGED <<tcp_socket, udp_socket, mpc, cpc, caller, retry_count, attempts, waits,
                 reconnectFailed, shutdownLogged>>
  /\ UNCHANGED <<kind, route, origRoute, current_stop_index, next_stop, status, _status,
                 is_delayed, delay_until, _is_delayed, _delay_until, is_shutdown, is_active,
                 afterStart, clock,
                 next_departure_time, now, rpc, wake, gstart, progress, beaconsLeft, ops>>
  /\ UNCHANGED <<srvVars, uberVars>>

\* the listener handles a Delay between two receives
DelayCommand ==
  /\ lpc = "loop"
  /\ \E d \in Durations : HandleCommand("DELAY", d)
  /\ UNCHANGED <<connRest, srvVars, uberVars>>

ShutdownNext == RouteMover \/ RouteTick \/ ShutdownSteps \/ DelayCommand

\* a Bus or a Shuttle, its movement thread and its listener, with a Shutdown on its way
SpecShutdown == InitStop /\ [][ShutdownNext]_vars

MaxClock == 600
\* the wall clock is read every quarter of an hour
ClockStep == 15

\* strftime("%H:%M") of a time given in minutes
HHMM(t) == t % 1440

\* a next departure that is never rolled forward
NextDeparture_NoRoll(last, t) == HHMM(last + 30)

\* calculate_next_departure: 30 minutes after the last, 30 more when that is not after now
NextDeparture(last, t) ==
  LET next_dep == last + 30
  IN HHMM(IF next_dep <= t THEN next_dep + 30 ELSE next_dep)

\* the arrival branch of RouteVehicle._movement_step with ShuttleClient._on_arrival, past
\* the passive test: self._current_stop_index = next_idx, then _on_arrival(next_stop)
ShuttleArrival ==
  /\ kind = "Shuttle"
  /\ running
  /\ is_active
  /\ next_departure_time < MaxClock
  /\ LET next_idx == (current_stop_index + 1) % Len(route)
     IN /\ current_stop_index' = next_idx
        /\ IF next_idx # 0
             THEN UNCHANGED <<is_active, status, next_departure_time>>
             ELSE /\ is_active' = FALSE
                  /\ status' = "Standby"
                  /\ next_departure_time' = NextDeparture(next_departure_time, clock)
  /\ Did(<<"arrival">>)
  /\ UNCHANGED <<running, kind, route, origRoute, next_stop, _status, is_delayed, delay_until,
                 _is_delayed, _delay_until, is_shutdown, afterStart, clock, now, rpc, wake,
                 gstart, progress, beaconsLeft, cmdsHandled, lastCommand>>

\* ShuttleClient._pre_step: if not self.is_active and now >= self.start_time
PreStep ==
  /\ kind = "Shuttle"
  /\ running
  /\ IF ~is_active /\ clock >= start_time
       THEN is_active' = TRUE /\ status' = "Active"
       ELSE UNCHANGED <<is_active, status>>
  /\ Did(<<"pre_step">>)
  /\ UNCHANGED <<running, kind, route, origRoute, current_stop_index, next_stop, _status,
                 is_delayed, delay_until, _is_delayed, _delay_until, is_shutdown, afterStart,
                 clock, next_departure_time, now, rpc, wake, gstart, progress, beaconsLeft,
                 cmdsHandled, lastCommand>>

\* a quarter of an hour passes
ClockAdvance ==
  /\ clock + ClockStep <= MaxClock
  /\ clock' = clock + ClockStep
  /\ afterStart' = (clock' >= start_time)
  /\ UNCHANGED <<running, kind, route, origRoute, current_stop_index, next_stop, status,
                 _status, is_delayed, delay_until, _is_delayed, _delay_until, is_shutdown,
                 is_active, next_departure_time, now, rpc, wake, gstart, progress,
                 beaconsLeft, ops, cmdsHandled, lastCommand>>

\* the shuttle's day: arrivals, the activation check, START_ROUTE commands, the clock
DayNext ==
  /\ UNCHANGED <<connRest, srvVars, uberVars>>
  /\ \/ ShuttleArrival
     \/ PreStep
     \/ ClockAdvance
     \/ HandleCommand("START_ROUTE", 0)

InitDay ==
  /\ ConnUp
  /\ SrvInit
  /\ RouteInitFor("Shuttle")
  /\ afterStart = FALSE
  /\ clock = start_time - ClockStep
  /\ next_departure_time = start_time
  /\ UberIdle

SpecDay == InitDay /\ [][DayNext]_vars

InitUber == ConnUp /\ SrvInit /\ UberInit

SpecUber == InitUber /\ [][UberNext]_vars

\* the trip alone: no command arrives
SpecTrip == InitUber /\ [][UberMover]_vars

\* the movement thread is scheduled, and random.random() does not stay below 0.8 for ever
FairTrip == SpecTrip /\ WF_vars(UberMover) /\ SF_vars(UberAdvance)

InitCmd == ConnUp /\ SrvInit /\ CmdInit

SpecCmd == InitCmd /\ [][CmdNext]_vars

(***************************************************************************)
(* Claims about the connection manager                                     *)
(***************************************************************************)
Backoff == <<2, 4, 8, 16, 32>>

\* C1: under persistent connect failure connect_to_server makes at most 5 attempts
\* (never a 6th), sleeps 2^k seconds after the k-th consecutive failure (2, 4, 8,
\* 16, 32), and when it returns False running is false; unless close() cleared
\* running meanwhile, it returns False only after all 5 attempts.
C1_BoundedBackoff ==
  /\ attempts <= 5
  /\ retry_count <= 5
  /\ Len(waits) = retry_count
  /\ \A k \in 1..Len(waits) : waits[k] = Backoff[k]
  /\ (cpc = "ret_false" => ~running)
  /\ (cpc = "ret_false" /\ mpc \notin {"closing_sockets", "done"}
        => attempts = 5 /\ waits = Backoff)

C1_Witness == cpc = "ret_false" /\ attempts = 5 /\ waits = Backoff /\ ~running

\* C2: once the listener has seen the connection lost and its reconnection has
\* succeeded, the vehicle is recovered: running is still true and the movement
\* loop is still running (simulate_movement has not exited into close()).
C2_RecoveredAfterReconnect ==
  (cpc = "ret_true" /\ caller \in {"disc", "reco"})
     => (running /\ mpc \in {"sim_check", "step"})

\* C3: if the listener's reconnection fails, running is false, and the listener
\* loop exits, the movement loop stops and close() is executed.
C3_FailedReconnectStops ==
  /\ [](reconnectFailed => ~running)
  /\ (reconnectFailed ~> (lpc = "exit" /\ mpc = "done" /\ shutdownLogged >= 1))

C3_Witness ==
  reconnectFailed /\ lpc = "exit" /\ mpc = "done" /\ shutdownLogged >= 1 /\ attempts = 5

(***************************************************************************)
(* Claims about the server's registry                                      *)
(***************************************************************************)
Registered(c) == hid[c] # "None"

ConnectedOnly == <<"VEHICLE_CONNECTED">>

ConnectedThenDisconnected == <<"VEHICLE_CONNECTED", "VEHICLE_DISCONNECTED">>

C4_EventsInOrder ==
  \A c \in Conns :
    /\ evlog[c] \in {<<>>, ConnectedOnly, ConnectedThenDisconnected}
    /\ ~Registered(c) => evlog[c] = <<>>
    /\ hpc[c] = "inserted" => evlog[c] = <<>>
    /\ hpc[c] \in {"serving", "recv", "removing", "removed"} => evlog[c] = ConnectedOnly
    /\ (Registered(c) /\ hpc[c] \in {"finally", "closed"}) => evlog[c] = ConnectedThenDisconnected

C4_Steps ==
  \A c \in Conns :
    /\ (~Registered(c) /\ hid'[c] # "None") =>
         /\ hid'[c] \in DOMAIN vehicle_registry'
         /\ vehicle_registry'[hid'[c]] = c
         /\ hpc'[c] = "inserted"
    /\ (hpc[c] = "inserted" /\ hpc'[c] # "inserted") => evlog'[c] = ConnectedOnly
    /\ (hpc[c] = "recv" /\ hpc'[c] \notin {"recv", "serving"}) => hpc'[c] = "removing"
    /\ (hpc[c] = "removing" /\ hpc'[c] # "removing") =>
         /\ hid[c] \notin DOMAIN vehicle_registry'
         /\ hpc'[c] = "removed"
         /\ evlog'[c] = ConnectedOnly
    /\ (evlog'[c] = ConnectedThenDisconnected /\ evlog[c] # evlog'[c]) => hpc[c] = "removed"

\* C4: a connection whose first message is a Registration is inserted in the
\* registry under its id, VEHICLE_CONNECTED is notified once and after the insert;
\* when the connection reaches EOF or a receive error the handler removes the
\* entry and then notifies VEHICLE_DISCONNECTED once, never before CONNECTED.
C4_RegistrationLifecycle == []C4_EventsInOrder /\ [][C4_Steps]_vars

C4_Witness ==
  \E c \in Conns :
    /\ hpc[c] = "closed"
    /\ Registered(c)
    /\ evlog[c] = ConnectedThenDisconnected
    /\ hid[c] \notin DOMAIN vehicle_registry

C5_Step ==
  cmdCount' # cmdCount =>
    LET id == lastCmd'.id IN
      /\ vehicle_registry' = vehicle_registry
      /\ vehicle_types' = vehicle_types
      /\ lastCmd'.ret = (lastCmd'.status = "SENT")
      /\ lastCmd'.status \in {"SENT", "FAILED", "NOT_FOUND"}
      /\ lastCmd'.status = "NOT_FOUND" <=> id \notin DOMAIN vehicle_registry
      /\ IF lastCmd'.status = "SENT"
           THEN delivered' = [delivered EXCEPT ![vehicle_registry[id]] = @ + 1]
           ELSE delivered' = delivered

\* C5: send_command writes exactly one Command to the connection registered under
\* the id and returns True; an id not in the registry writes to no connection and
\* returns False (NOT_FOUND); a failed write returns False (FAILED); the registry
\* is the same after the call in all three cases.
C5_SendCommandOutcomes == [][C5_Step]_vars

C5_Witness ==
  /\ cmdCount = 2
  /\ lastCmd.status = "SENT"
  /\ \E c \in Conns : delivered[c] = 1 /\ \A d \in Conns \ {c} : delivered[d] = 0
  /\ Cardinality(DOMAIN vehicle_registry) = 2

Terminating(c) ==
  /\ hpc'[c] # hpc[c]
  /\ hpc'[c] \in {"removing", "removed", "finally", "closed"}

C6_Step ==
  \A c \in Conns :
    Terminating(c) =>
      /\ \A id \in DOMAIN vehicle_registry :
           vehicle_registry[id] # c =>
             /\ id \in DOMAIN vehicle_registry'
             /\ vehicle_registry'[id] = vehicle_registry[id]
      /\ \A d \in Conns \ {c} : client_socket'[d] = client_socket[d]
      /\ srv_running' = srv_running
      /\ tcp_server' = tcp_server

\* C6: when one connection's handler terminates (EOF, receive error, undecodable
\* message) it removes no registry entry but its own: every entry that maps to
\* another connection is unchanged, no other connection's socket is closed, and
\* the accept loop (running flag, listening socket) is untouched.
C6_HandlerIsolation == [][C6_Step]_vars

(***************************************************************************)
(* Claims about the route vehicles' commands                               *)
(***************************************************************************)
\* the fields each class's execute(DELAY) writes
DelayedFlag == IF kind = "Bus" THEN is_delayed ELSE _is_delayed

DelayUntil == IF kind = "Bus" THEN delay_until ELSE _delay_until

DelayStatus == IF kind = "Train" THEN _status ELSE status

DelayExecuted == cmdsHandled' # cmdsHandled /\ lastCommand'.cmd = "DELAY"

C7_Step ==
  DelayExecuted =>
    /\ DelayedFlag'
    /\ DelayUntil' = now + lastCommand'.duration
    /\ DelayStatus' = "Delayed"
    /\ lastCommand'.response = "ACK"

\* C7: executing Delay with duration D on a Bus, a Train or a Shuttle sets the
\* class's delayed flag, sets its delay deadline to now + D and sets its status
\* field to "Delayed".
C7_DelaySetsState == [][C7_Step]_vars

C7_Witness ==
  /\ lastCommand.cmd = "DELAY"
  /\ now > 0
  /\ DelayedFlag
  /\ DelayUntil = now + lastCommand.duration
  /\ DelayStatus = "Delayed"

\* the movement thread starts a pass of its loop
PassStarts == rpc = "loop" /\ rpc' # "loop" /\ running

C8_Step ==
  (PassStarts /\ DelayedFlag /\ now < DelayUntil) =>
    /\ ops' = <<"delay_wait">>
    /\ current_stop_index' = current_stop_index

\* C8: after a Delay executed by the command listener, a pass of the simulation
\* loop that starts while now < delay_until only waits: it runs no pre_step,
\* movement_step or post_step, sends no status update or beacon and leaves
\* current_stop_index alone.
C8_NoProgressWhileDelayed == [][C8_Step]_vars

C9_Step ==
  (PassStarts /\ DelayedFlag /\ now >= DelayUntil) =>
    /\ ~DelayedFlag'
    /\ ops' \in {<<"pre_step">>, <<"status_update">>}

\* C9: once now >= delay_until, the next pass of the loop of a delayed vehicle
\* clears the delayed flag and runs the travel steps again, with no command.
C9_DelayedVehicleResumes == [][C9_Step]_vars

Interior(r) == SubSeq(r, 2, Len(r) - 1)

Occurrences(stop, r) == Cardinality({i \in 1..Len(r) : r[i] = stop})

Stops(r) == {r[i] : i \in 1..Len(r)}

\* C10: on a route of more than 3 stops, after any number of Reroutes the first
\* and the last stop are the original ones, the length is the original length and
\* the interior holds each original interior stop as often as the original did.
C10_ReroutePermutesInterior ==
  Len(origRoute) > 3 =>
    /\ Len(route) = Len(origRoute)
    /\ route[1] = origRoute[1]
    /\ route[Len(route)] = origRoute[Len(origRoute)]
    /\ \A stop \in Stops(route) \cup Stops(origRoute) :
         Occurrences(stop, Interior(route)) = Occurrences(stop, Interior(origRoute))

C10_Witness ==
  /\ Len(origRoute) > 3
  /\ cmdsHandled >= 2
  /\ lastCommand.cmd = "REROUTE"
  /\ route # origRoute
  /\ route[2] = origRoute[Len(origRoute) - 1]

(***************************************************************************)
(* Claims about command handling                                           *)
(***************************************************************************)
\* the fields of the vehicle object other than the bookkeeping of the handled command
VehicleFields == <<running, route, current_stop_index, next_stop, status, _status, is_delayed,
                   delay_until, _is_delayed, _delay_until, is_shutdown, is_active, progress,
                   eta, in_network_dropout>>

RerouteExecuted ==
  /\ cmdsHandled' = cmdsHandled + 1
  /\ lastCommand'.cmd = "REROUTE"
  /\ kind \in {"Train", "Bus"}

C11_Step == (RerouteExecuted /\ Len(route) <= 3) => UNCHANGED VehicleFields

\* C11: executing Reroute on a route of three or fewer stops leaves the route, in order
\* and content, and every other field of the vehicle unchanged.
C11_ShortRerouteIsNoOp == [][C11_Step]_vars

C11_Witness ==
  /\ kind = "Train"
  /\ lastCommand.cmd = "REROUTE"
  /\ Len(route) = 3
  /\ route = origRoute

\* the commands a handler finds inapplicable to the vehicle's present state
Inapplicable(cmd) ==
  \/ cmd = "REROUTE" /\ kind \in {"Train", "Bus"} /\ Len(route) <= 3
  \/ cmd = "START_ROUTE" /\ kind = "Shuttle" /\ ~afterStart

C12_Step ==
  cmdsHandled' = cmdsHandled + 1 =>
    /\ lastCommand'.response \in {"ACK", "REJECTED"}
    /\ lastCommand'.response = "REJECTED" => UNCHANGED VehicleFields
    /\ Inapplicable(lastCommand'.cmd) => lastCommand'.response = "REJECTED"

\* C12: every handled command gets exactly one response, CommandRejected leaves the vehicle's
\* state as it was, and a command found inapplicable (Reroute on a route of three or fewer
\* stops, a Shuttle's StartRoute before its start time) is answered CommandRejected.
C12_OneResponsePerCommand == [][C12_Step]_vars

\* the command strings a class has a branch for that can acknowledge
Supported(k) ==
  CASE k = "Train" -> {"DELAY", "SHUTDOWN", "REROUTE", "START_ROUTE"}
    [] k = "Shuttle" -> {"START_ROUTE", "SHUTDOWN", "DELAY"}
    [] k = "Bus" -> {"DELAY", "REROUTE", "SHUTDOWN"}
    [] OTHER -> {}

C13_Step ==
  (cmdsHandled' = cmdsHandled + 1 /\ lastCommand'.cmd \notin Supported(kind)) =>
    /\ lastCommand'.response = "REJECTED"
    /\ UNCHANGED VehicleFields

\* C13: whatever the vehicle type, a command whose string the type does not support is
\* answered CommandRejected, never acknowledged, and changes no state of the vehicle.
C13_UnknownCommandRejected == [][C13_Step]_vars

C13_Witness ==
  /\ kind = "Uber"
  /\ lastCommand.cmd \in UnknownCommands
  /\ lastCommand.response = "REJECTED"
  /\ failures = <<"Unknown or unsupported command">>

Terminal == <<progress, status, eta, running>>

UberRejects ==
  /\ kind = "Uber"
  /\ cmdsHandled' = cmdsHandled + 1
  /\ lastCommand'.cmd \in {"DELAY", "REROUTE", "SHUTDOWN"}

\* the rejections the Uber has sent: those the server has logged, then those still unread
RejectionReasons == failures \o [i \in 1..Len(outbox) |-> outbox[i].reason]

C14_Step ==
  /\ UberRejects =>
       /\ lastCommand'.response = "REJECTED"
       /\ outbox' = Append(outbox, CommandRejected(lastCommand'.cmd, UberReason(lastCommand'.cmd)))
       /\ UberReason(lastCommand'.cmd) # "Unknown or unsupported command"
       /\ UNCHANGED Terminal
       /\ RejectionReasons' = Append(RejectionReasons, UberReason(lastCommand'.cmd))
  /\ ~UberRejects =>
       \/ RejectionReasons' = RejectionReasons
       \/ RejectionReasons' = Append(RejectionReasons, "Unknown or unsupported command")

C18_Step ==
  /\ progress' >= progress
  /\ progress = 100 => progress' = 100

\* C18: the progress of a point-to-point trip stays within 0..100 and never decreases,
\* inside the dropout window or outside it; once it is 100 it stays 100.
C18_ProgressMonotone == [](progress \in 0..100) /\ [][C18_Step]_vars

C18_Witness ==
  /\ kind = "Uber"
  /\ progress = 100
  /\ rpc = "closed"

\* C19: from progress 0 with the connection up the trip reaches progress exactly 100 and
\* running = false, whatever the dropout simulation between 50 and 60 does.
C19_TripCompletes == (kind = "Uber" /\ progress = 0) ~> (progress = 100 /\ ~running)

C19_Witness ==
  /\ kind = "Uber"
  /\ progress = 100
  /\ ~running
  /\ rpc = "done"

IsBeacon(op) == op = "beacon"

C20_Step ==
  /\ completions' \in {completions, completions + 1}
  /\ completions' <= 1
  /\ completions' = completions + 1 =>
       /\ progress = 100
       /\ status' = "On Time"
       /\ ops' = <<"status_update", "beacon">>
       /\ lastBeacon'.status = "On Time"
       /\ lastBeacon'.has_eta /\ lastBeacon'.eta = 0
       /\ ~running'
  /\ completions = 1 => /\ rpc' # rpc => SelectSeq(ops', IsBeacon) = <<>>
                        /\ lastBeacon' = lastBeacon

\* C20: when the trip's progress has reached 100 the completion runs once: status becomes
\* On Time, one final StatusUpdate and one final LocationUpdate carrying eta = 0 are sent,
\* running becomes false, and no beacon follows.
C20_CompletionOnce == [][C20_Step]_vars

(***************************************************************************)
(* Claims about the shuttle's schedule and the train's standby             *)
(***************************************************************************)
ShuttleStartRoute ==
  /\ kind = "Shuttle"
  /\ cmdsHandled' = cmdsHandled + 1
  /\ lastCommand'.cmd = "START_ROUTE"

C15_Step ==
  ShuttleStartRoute =>
    IF afterStart
      THEN /\ lastCommand'.response = "ACK"
           /\ is_active' = TRUE
           /\ status' = "Active"
      ELSE /\ lastCommand'.response = "REJECTED"
           /\ UNCHANGED <<is_active, status>>

\* C15: a Shuttle answers a StartRoute received before its start time with CommandRejected
\* and keeps is_active and status; at or after the start time the command sets is_active
\* and status Active and is acknowledged.
C15_ShuttleStartRoute == [][C15_Step]_vars

C15_Witness ==
  /\ kind = "Shuttle"
  /\ cmdsHandled = 2
  /\ lastCommand.cmd = "START_ROUTE"
  /\ lastCommand.response = "ACK"
  /\ is_active
  /\ status = "Active"

TrainCommand(cmd) ==
  /\ kind = "Train"
  /\ cmdsHandled' = cmdsHandled + 1
  /\ lastCommand'.cmd = cmd

C16_Step ==
  /\ TrainCommand("SHUTDOWN") =>
       /\ is_shutdown' = TRUE
       /\ _status' = "Standby"
       /\ running' = running
       /\ lastCommand'.response = "ACK"
  /\ TrainCommand("START_ROUTE") =>
       /\ lastCommand'.response = "ACK"
       /\ IF is_shutdown
            THEN is_shutdown' = FALSE /\ _status' = "On Time"
            ELSE UNCHANGED VehicleFields
  /\ (kind = "Train" /\ is_shutdown) => current_stop_index' = current_stop_index

\* C16: a Train's Shutdown puts it in standby (is_shutdown, status Standby) and leaves
\* running alone; StartRoute leaves standby for On Time, and outside standby it is
\* acknowledged and changes nothing; a train in standby does not advance its stop index.
C16_TrainStandby == [][C16_Step]_vars

C16_Witness ==
  /\ kind = "Train"
  /\ is_shutdown
  /\ _status = "Standby"
  /\ running
  /\ lastCommand.cmd = "SHUTDOWN"
  /\ progress = 100
  /\ gstart > 0

ShutdownAccepted ==
  /\ kind \in {"Bus", "Shuttle"}
  /\ lastCommand.cmd = "SHUTDOWN"
  /\ lastCommand.response = "ACK"

Closed == rpc = "closed" /\ tcp_socket = "closed" /\ udp_socket = "closed"

C17_Step == rpc = "closed" => (ops' = ops /\ rpc' = rpc)

\* C17: once a Bus or a Shuttle has accepted Shutdown, running is false, the movement loop
\* ends and close() closes both sockets; after close() the vehicle sends no beacon and no
\* status update.
C17_ShutdownTerminates ==
  /\ [](ShutdownAccepted => ~running)
  /\ ShutdownAccepted ~> Closed
  /\ [][C17_Step]_vars

C17_Witness ==
  /\ ShutdownAccepted
  /\ Closed
  /\ now > 0

(***************************************************************************)
(* Claims about start() and close()                                        *)
(***************************************************************************)
SocketsClosed == tcp_socket \in {"None", "closed"} /\ udp_socket = "closed"

\* C21: close() is idempotent: whenever a call of close() has returned, however many calls
\* came before it, running is false, both sockets are closed and the shutdown has been
\* logged exactly once.
C21_CloseIdempotent ==
  mpc = "done" => (~running /\ SocketsClosed /\ shutdownLogged = 1)

\* C22: start() does not return without having called close(), whether the initial connect
\* failed or the simulation ended.
C22_StartAlwaysCloses ==
  mpc \in {"returned", "done"} => shutdownLogged >= 1

(***************************************************************************)
(* Claims about the listener's reconnection and the send paths             *)
(***************************************************************************)
\* the listener's recv returned no data or raised: it leaves for a reconnection
RecvFailed == lpc = "recv" /\ lpc' = "reconnecting"

C27_Step ==
  RecvFailed =>
    /\ server_shutdown_detected' = TRUE
    /\ tcp_socket' = "closed"
    /\ cpc' = "check"

\* C27: on a zero-length read and on an I/O error alike the command listener sets
\* server_shutdown_detected, closes the TCP socket it was reading and calls
\* connect_to_server again.
C27_ListenerReconnects == [][C27_Step]_vars

\* C28: on every TCP connection the vehicle opens, the first message written to it is the
\* Registration.
C28_RegistrationFirst == firstMsg \in {"None", "REGISTRATION"}

CloseCalled == mpc \in {"closing_sockets", "done"}

C29_Step ==
  CloseCalled =>
    /\ attempts' <= attempts
    /\ firstMsg' # firstMsg => firstMsg' # "REGISTRATION"
    /\ tcp_socket' = "connected" => tcp_socket = "connected"

\* C29: once close() has been called the vehicle opens no new control connection and sends
\* no Registration.
C29_NoConnectionAfterClose == [][C29_Step]_vars

\* a send_status_update / send_command_ack call has just failed
FailedSend ==
  /\ lastSend' = "failed"
  /\ lastSend # "failed" \/ (mpc = "step" /\ mpc' = "sim_check")

C30_Step ==
  FailedSend =>
    /\ server_shutdown_detected' = TRUE
    /\ UNCHANGED <<running, tcp_socket, cpc, caller, retry_count, attempts, waits>>

NoDuplicates(l) == \A i, j \in DOMAIN l : l[i] = l[j] => i = j

Members(l) == {l[i] : i \in DOMAIN l}

\* the relative order of the members of l that are in S
RECURSIVE Restrict(_, _)
Restrict(l, S) ==
  IF l = <<>> THEN <<>>
  ELSE IF Head(l) \in S THEN <<Head(l)>> \o Restrict(Tail(l), S)
  ELSE Restrict(Tail(l), S)

C23_Step ==
  /\ NoDuplicates(_observers')
  \* a registration puts the newcomer last; a removal keeps the order of the others
  /\ Restrict(_observers', Members(_observers)) = Restrict(_observers, Members(_observers'))
  /\ \A o \in Members(_observers') \ Members(_observers) :
       _observers'[Len(_observers')] = o
  \* a notification calls the registered observers, each once, in the list's order
  /\ notified' # notified =>
       /\ notified' = _observers
       /\ NoDuplicates(notified')
       /\ \A o \in Observers \ Members(_observers) : o \notin Members(notified')

\* C23: a Subject's observer list never holds an observer twice and keeps registration
\* order, and notify_observers calls each registered observer once, in that order, and no
\* removed observer.
C23_ObserverList == [][C23_Step]_vars

C23_Witness ==
  /\ Len(_observers) = 2
  /\ Len(notified) = 3
  /\ \E o \in Members(notified) : o \notin Members(_observers)
  /\ _observers[1] # "log_observer"

BadFirstMessages == {"other", "undecodable"}

C24_Step ==
  /\ \A c \in Conns :
       (\E got \in BadFirstMessages : FirstRecvGot(c, got)) =>
         /\ hpc'[c] = "finally"
         /\ evlog[c] = <<>>
         /\ UNCHANGED <<vehicle_registry, vehicle_types, evlog, srv_running>>
  /\ \A c \in Conns :
       ServeRecvGot(c, "undecodable") =>
         /\ hpc'[c] = "removing"
         /\ srv_running' = srv_running
  /\ \A c \in Conns :
       hpc[c] = "removing" /\ hpc'[c] # "removing" =>
         /\ hid[c] \notin DOMAIN vehicle_registry'
         /\ hpc'[c] = "removed"
  /\ \A c \in Conns :
       hpc[c] = "removed" /\ hpc'[c] # "removed" =>
         evlog'[c] = Append(evlog[c], "VEHICLE_DISCONNECTED")
  /\ \A c \in Conns :
       hpc[c] = "finally" /\ hpc'[c] # "finally" => client_socket'[c] = "closed"
  /\ upc = "recv" /\ upc' # "recv" =>
       /\ upc' = "check"
       /\ UNCHANGED <<srv_running, vehicle_registry, evlog, hpc>>

C24_Contained ==
  /\ \A c \in Conns : hid[c] = "None" => evlog[c] = <<>>
  /\ \A c \in Conns : hid[c] = "None" =>
       \A id \in DOMAIN vehicle_registry : vehicle_registry[id] # c
  /\ upc = "exit" => ~srv_running

\* C24: a connection whose first message is no decodable Registration is closed with no
\* registry entry and no event; an undecodable message on a registered connection ends that
\* connection with its entry removed and VEHICLE_DISCONNECTED emitted; an undecodable
\* datagram is dropped and the UDP loop goes on; none of these stops the server.
C24_ProtocolErrorsContained == [][C24_Step]_vars /\ []C24_Contained

C24_Witness ==
  /\ srv_running
  /\ udpLast = "dropped"
  /\ upc = "recv"
  /\ \E c, d \in Conns :
       /\ hpc[c] = "closed" /\ hid[c] = "None" /\ evlog[c] = <<>>
       /\ hpc[d] = "closed"
       /\ evlog[d] = <<"VEHICLE_CONNECTED", "VEHICLE_DISCONNECTED">>
       /\ hid[d] \notin DOMAIN vehicle_registry

(***************************************************************************)
(* Claims about the route position and about re-registration               *)
(***************************************************************************)
\* C25: a route vehicle's current_stop_index is always an index of its route and next_stop
\* is always the stop after it, route[(current_stop_index + 1) mod len(route)], also right
\* after an arrival and right after a Reroute.
C25_NextStopFollowsIndex ==
  /\ current_stop_index \in 0 .. (Len(route) - 1)
  /\ next_stop = route[((current_stop_index + 1) % Len(route)) + 1]

\* the handler of connection c has a registered, open connection and has not begun to end it
LiveRegistered(c) == hpc[c] \in {"inserted", "serving", "recv"} /\ client_socket[c] = "open"

\* the handler of connection c finishes a connection whose id a newer, live connection
\* has registered since
StaleCleanup(c) ==
  /\ hpc[c] = "removing"
  /\ hpc'[c] = "removed"
  /\ hid[c] \in DOMAIN vehicle_registry
  /\ vehicle_registry[hid[c]] # c
  /\ LiveRegistered(vehicle_registry[hid[c]])

C26_Step ==
  \A c \in Conns :
    StaleCleanup(c) =>
      /\ hid[c] \in DOMAIN vehicle_registry'
      /\ vehicle_registry'[hid[c]] = vehicle_registry[hid[c]]

\* C26: when a vehicle has registered again under its id before the handler of its previous
\* connection finished, that handler's cleanup leaves the newer entry in the registry, so
\* the vehicle's live connection stays reachable by send_command.
C26_StaleCleanupKeepsEntry == [][C26_Step]_vars

(***************************************************************************)
(* Claims about the movement step of the route vehicles                    *)
(***************************************************************************)
\* the movement thread takes this step
MoverActs == rpc' # rpc

\* the step consumes a progress element: the generator's next pair, or the flat
\* BusClient's next increment
ConsumesElement ==
  /\ MoverActs
  /\ running
  /\ rpc \in {"gen", "beacons"}

\* the element consumed completes the leg
CompletesLeg ==
  /\ ConsumesElement
  /\ \/ rpc = "gen" /\ progress' >= 100
     \/ rpc = "beacons" /\ progress' < progress

Count(seq, x) == Cardinality({i \in DOMAIN seq : seq[i] = x})

C31_Step ==
  /\ CompletesLeg =>
       /\ current_stop_index' = (current_stop_index + 1) % Len(route)
       /\ Count(ops', "arrival") = 1
  /\ current_stop_index' # current_stop_index => CompletesLeg
  /\ (MoverActs /\ ~running) =>
       (current_stop_index' = current_stop_index /\ Count(ops', "arrival") = 0)

\* C31: every route vehicle advances current_stop_index by one (mod the route length) when,
\* and only when, it consumes a progress element >= 100 while running, with one ARRIVAL for
\* the stop reached; a step that finds running cleared leaves the index and emits no ARRIVAL.
C31_IndexAdvancesOnArrival == [][C31_Step]_vars

C32_Step ==
  (MoverActs /\ Count(ops', "arrival") > 0) =>
    route'[current_stop_index' + 1] = next_stop

\* C32: at an arrival, also when a Reroute ran during the leg, the stop now stored,
\* route[current_stop_index], which the ARRIVAL event names, is the stop the vehicle was
\* travelling to.
C32_ArrivalAtDestination == [][C32_Step]_vars

\* _in_passive_mode: the Train in standby, the Shuttle not active
InPassiveMode ==
  \/ kind = "Train" /\ is_shutdown
  \/ kind = "Shuttle" /\ ~is_active

\* simulate_movement reaches the call of _movement_step
CallsMovementStep == rpc = "loop" /\ MoverActs /\ running /\ ~DelayWaits

C33_Step ==
  (CallsMovementStep /\ InPassiveMode') =>
    /\ rpc' # "gen"
    /\ Count(ops', "status_update") = 0
    /\ current_stop_index' = current_stop_index

\* C33: a movement step of a vehicle whose passive predicate holds runs the passive
\* simulation and returns: it opens no leg, consumes no progress element and leaves
\* current_stop_index unchanged.
C33_PassiveStep == [][C33_Step]_vars

C34_Step ==
  /\ (ConsumesElement /\ ~CompletesLeg) =>
       /\ ops' = <<"beacon">>
       /\ wake' > now
  /\ CompletesLeg =>
       /\ Count(ops', "beacon") = 0
       /\ Count(ops', "status_update") = 0
       /\ rpc' \notin {"gen_sleep", "beacon_sleep"}

\* C34: in an active leg each progress element below 100 emits exactly one beacon followed
\* by a pause, and the arrival element emits no beacon and no pause.
C34_LegOrder == [][C34_Step]_vars

\* C35: the status a Train's messages carry is the one its last executed command set:
\* Delayed after Delay, Standby after Shutdown, On Time after a StartRoute.
C35_TrainMessageStatus ==
  (kind = "Train" /\ lastCommand.response = "ACK") =>
    /\ lastCommand.cmd = "DELAY" => status = "Delayed"
    /\ lastCommand.cmd = "SHUTDOWN" => status = "Standby"
    /\ lastCommand.cmd = "START_ROUTE" => status = "On Time"

(***************************************************************************)
(* Claims about the Uber's dropout window                                  *)
(***************************************************************************)
\* threshold <= progress < threshold + 10
DropoutWindow == network_dropout_threshold .. network_dropout_threshold + 9

UberIterates == kind = "Uber" /\ rpc = "loop" /\ rpc' = "uber_sleep"

C39_Step ==
  UberIterates =>
    /\ Count(ops', "retry") = 1 =>
         /\ progress \in DropoutWindow
         /\ progress' = progress
         /\ Count(ops', "beacon") = 0
         /\ lastBeacon' = lastBeacon
    /\ Count(ops', "retry") = 0 => Count(ops', "beacon") = 1
    /\ (in_network_dropout' /\ ~in_network_dropout) => progress \in DropoutWindow
    /\ progress >= network_dropout_threshold + 10 => ~in_network_dropout'

\* C39: an Uber iteration that fails happens only inside the dropout window, emits no beacon
\* and leaves progress as it was; every other iteration emits exactly one beacon; the
\* dropout flag is set only inside the window and the first iteration at or past the
\* window's end clears it.
C39_DropoutWindow == [][C39_Step]_vars /\ [](in_network_dropout => progress >= network_dropout_threshold)

C39_Witness ==
  /\ kind = "Uber"
  /\ in_network_dropout
  /\ Count(ops, "retry") = 1
  /\ progress \in DropoutWindow
  /\ rpc = "uber_sleep"

C39_Cleared ==
  /\ kind = "Uber"
  /\ ~in_network_dropout
  /\ progress \in 60 .. 64
  /\ Count(ops, "beacon") = 1

(***************************************************************************)
(* Claims about the registry lock                                          *)
(***************************************************************************)
\* C40: the server holds its registry lock only around reads and writes of the registry
\* map: send_command, like the connection handler, does no socket send and no telemetry
\* write while it holds the lock.
C40_LockOnlyAroundRegistry == lastCmd.locked_io = <<>>

(***************************************************************************)
(* Claims about the order of acknowledgement and close                     *)
(***************************************************************************)
C38_Step == (lpc = "ack" /\ lpc' = "stop") => tcp_socket = "connected"

\* C38: when a Bus or a Shuttle accepts a Shutdown with its connection up, the CommandAck is
\* written while the control socket is still open: the vehicle's own close() does not come
\* first, however the listener and the movement thread interleave.
C38_AckBeforeClose == [][C38_Step]_vars

(***************************************************************************)
(* Claims about the shuttle's schedule                                     *)
(***************************************************************************)
Arrives == current_stop_index' # current_stop_index

\* 30 minutes after the scheduled departure, and 30 more when that is not later than now
RolledDeparture ==
  IF next_departure_time + 30 <= clock
    THEN (next_departure_time + 60) % 1440
    ELSE (next_departure_time + 30) % 1440

C36_Step ==
  Arrives =>
    IF current_stop_index' = 0
      THEN /\ ~is_active'
           /\ status' = "Standby"
           /\ next_departure_time' = RolledDeparture
      ELSE UNCHANGED <<is_active, status, next_departure_time>>

\* C36: a Shuttle arrival that wraps current_stop_index to 0 makes the shuttle inactive with
\* status Standby and moves next_departure_time 30 minutes on, and 30 more when that time
\* is not later than now; an arrival at another index changes none of the three.
C36_RouteCompleted == [][C36_Step]_vars

C36_Witness ==
  /\ kind = "Shuttle"
  /\ ops = <<"arrival">>
  /\ current_stop_index = 0
  /\ ~is_active
  /\ status = "Standby"
  /\ next_departure_time = start_time + 60
  /\ clock >= start_time + 30

\* the shuttle is in the standby its completed route put it in, before its next departure
AwaitsDeparture ==
  /\ kind = "Shuttle"
  /\ ~is_active
  /\ status = "Standby"
  /\ clock < next_departure_time

C37_Step ==
  (AwaitsDeparture /\ lastCommand' = lastCommand /\ clock' < next_departure_time')
    => ~is_active'

\* C37: a Shuttle that completed its route and went to standby stays inactive until its
\* next_departure_time is reached, unless it accepts a StartRoute command before.
C37_StandbyUntilDeparture == [][C37_Step]_vars

====
